---- MODULE Spec2Model ----
(***************************************************************************)
(* Task lifecycle tracker and agent registry of AgenticCP-Agent.           *)
(*                                                                         *)
(* The persisted state is the two tables "tasks" and "agents" behind       *)
(* TaskService / AgentService (src/src/services).  Every action is one     *)
(* HTTP request of src/src/api/v1/tasks.py or src/src/api/v1/agents.py,    *)
(* handled to completion: the service call, its commit, and the mapping of *)
(* the outcome to a response.                                              *)
(***************************************************************************)
EXTENDS Integers, Sequences, FiniteSets, TLC

(***************************************************************************)
(* Bounds                                                                  *)
(***************************************************************************)
\* number of requests a behaviour handles; also the range of the clock
MaxTime == 3

(***************************************************************************)
(* Python's Optional[T]: None is the empty tuple, a value v is <<v>>.      *)
(***************************************************************************)
None == <<>>

Some(v) == <<v>>

\* Python truthiness of an Optional[int]: None and 0 are falsy
Truthy(opt) == opt # None /\ opt[1] # 0

(***************************************************************************)
(* Enumerations and value domains                                          *)
(***************************************************************************)
TaskStatus == {"PENDING", "RUNNING", "COMPLETED", "FAILED", "CANCELLED", "TIMEOUT"}

AgentStatus == {"ACTIVE", "INACTIVE", "MAINTENANCE", "ERROR"}

\* task_id values requests carry
TaskIds == {"t1", "t2"}

\* agent_id strings create_agent requests carry
AgentNames == {"a1", "a2"}

\* primary keys the agents sequence hands out (it starts at 1)
AgentPKs == {1, 2}

\* agent primary keys a request may carry: no row ever has key 0
AgentRefs == {0} \cup AgentPKs

\* TaskBase.priority: 1..10, default 5; the default and one other value
DefaultPriority == 5

Priorities == {DefaultPriority, 10}

\* Task.progress: 0..100; the column default and one other value
ProgressVals == {0, 50}

OutputVals == {"out"}

ErrorVals == {"err"}

(***************************************************************************)
(* State                                                                   *)
(***************************************************************************)
VARIABLES
    tasks,      \* table tasks: task_id -> row, for the rows that exist
    agents,     \* table agents: primary key -> row, for the rows that exist
    agent_seq,  \* last primary key the agents sequence handed out
    now,        \* datetime.utcnow(): advances by one with every request
    last,       \* the request handled last and its outcome
    cache,      \* Redis behind CacheService: cache key -> cached value
    reference,  \* the agents table, sequence and outcome of the same agent
                \* requests handled by a service whose cache operations all fail
    pending_delete,       \* the agent a delete_agent call has checked and not
                          \* yet deleted, if there is such a call
    in_flight,  \* the task requests that have read the store and not yet
                \* committed, each with the row it read
    conversation_history, \* SupervisorAgent.conversation_history: thread -> turns
    appended,   \* every turn ever added to a thread, in the order it was added
    reply,      \* what the supervisor or the resource handler returned last
    sdk_calls,  \* the calls made to the cloud SDK so far
    graph_run   \* the chat request whose graph is running, with the node it
                \* has reached, if there is such a request

\* the variables of the multi-agent chat side
supervisor_vars == <<conversation_history, appended, reply, sdk_calls, graph_run>>

vars == <<tasks, agents, agent_seq, now, last, cache, reference, pending_delete,
          in_flight, conversation_history, appended, reply, sdk_calls, graph_run>>

(***************************************************************************)
(* Task model                                                              *)
(***************************************************************************)
\* Task(**obj_data) with the column defaults
NewTask(priority, agent_ref) ==
    [status        |-> "PENDING",
     priority      |-> priority,
     progress      |-> 0,
     output_data   |-> None,
     error_message |-> None,
     started_at    |-> None,
     completed_at  |-> None,
     agent_id      |-> agent_ref]

is_completed(task) == task.status \in {"COMPLETED", "FAILED", "CANCELLED", "TIMEOUT"}

\* can_be_cancelled with PENDING left out
can_be_cancelled_running_only(task) == task.status \in {"RUNNING"}

can_be_cancelled(task) == task.status \in {"PENDING", "RUNNING"}

\* can_be_retried with TIMEOUT left out
can_be_retried_failed_only(task) == task.status \in {"FAILED"}

can_be_retried(task) == task.status \in {"FAILED", "TIMEOUT"}

(***************************************************************************)
(* Agent model                                                             *)
(***************************************************************************)
NewAgent(name) ==
    [agent_id       |-> name,
     status         |-> "ACTIVE",
     is_enabled     |-> TRUE,
     last_heartbeat |-> None]

\* is_active without the is_enabled test
is_active_ignoring_enabled(agent) == agent.status = "ACTIVE"

is_active(agent) == agent.status = "ACTIVE" /\ agent.is_enabled

is_available(agent) == is_active(agent) /\ agent.status # "MAINTENANCE"

can_accept_task(agent) == IF ~is_available(agent) THEN FALSE ELSE TRUE

(***************************************************************************)
(* The store                                                               *)
(***************************************************************************)
\* the outcome of a service call: the tasks table it leaves and its result
Outcome(T, result) == [tasks |-> T, result |-> result]

\* get_by_field("task_id", task_id): the row, if there is one
HasTask(T, task_id) == task_id \in DOMAIN T

\* select(Agent).where(Agent.id == agent_id): the row, if there is one
HasAgent(A, pk) == pk \in DOMAIN A

\* tasks.agent_id is a foreign key to agents.id: a row can be written only
\* with no agent or with the key of an existing agent
ForeignKeyHolds(A, agent_ref) == agent_ref = None \/ HasAgent(A, agent_ref[1])

\* the table with one more row
Insert(T, key, row) == [k \in DOMAIN T \cup {key} |-> IF k = key THEN row ELSE T[k]]

\* the table without a row
Remove(T, key) == [k \in DOMAIN T \ {key} |-> T[k]]

(***************************************************************************)
(* TaskService                                                             *)
(***************************************************************************)
\* assign_task_to_agent without the test that the agent exists
assign_without_agent_lookup(T, A, t, task_id, agent_pk) ==
    IF ~HasTask(T, task_id) THEN Outcome(T, "None")
    ELSE IF HasAgent(A, agent_pk) /\ ~can_accept_task(A[agent_pk])
    THEN Outcome(T, "ValueError: agent cannot accept")
    ELSE Outcome([T EXCEPT ![task_id] =
                     [@ EXCEPT !.agent_id = Some(agent_pk),
                               !.status = "RUNNING",
                               !.started_at = Some(t)]],
                 "ok")

\* assign_task_to_agent that forgets started_at
assign_without_started_at(T, A, t, task_id, agent_pk) ==
    IF ~HasTask(T, task_id) THEN Outcome(T, "None")
    ELSE IF ~HasAgent(A, agent_pk) THEN Outcome(T, "ValueError: agent not found")
    ELSE IF ~can_accept_task(A[agent_pk]) THEN Outcome(T, "ValueError: agent cannot accept")
    ELSE Outcome([T EXCEPT ![task_id] =
                     [@ EXCEPT !.agent_id = Some(agent_pk),
                               !.status = "RUNNING"]],
                 "ok")

assign_task_to_agent(T, A, t, task_id, agent_pk) ==
    IF ~HasTask(T, task_id) THEN Outcome(T, "None")
    ELSE IF ~HasAgent(A, agent_pk) THEN Outcome(T, "ValueError: agent not found")
    ELSE IF ~can_accept_task(A[agent_pk]) THEN Outcome(T, "ValueError: agent cannot accept")
    ELSE Outcome([T EXCEPT ![task_id] =
                     [@ EXCEPT !.agent_id = Some(agent_pk),
                               !.status = "RUNNING",
                               !.started_at = Some(t)]],
                 "ok")

\* the rows of a query result that are ACTIVE and enabled, in the order the
\* store returned them
RECURSIVE available_agents(_, _)
available_agents(A, order) ==
    IF order = <<>> THEN <<>>
    ELSE LET pk == Head(order)
             rest == available_agents(A, Tail(order))
         IN IF A[pk].status = "ACTIVE" /\ A[pk].is_enabled = TRUE
            THEN <<pk>> \o rest
            ELSE rest

\* the first agent of the list that can accept a task, if any
RECURSIVE first_accepting(_, _)
first_accepting(A, list) ==
    IF list = <<>> THEN None
    ELSE IF can_accept_task(A[Head(list)]) THEN Some(Head(list))
    ELSE first_accepting(A, Tail(list))

auto_assign_task(T, A, t, task_id, order) ==
    IF ~HasTask(T, task_id) THEN Outcome(T, "None")
    ELSE LET agent == first_accepting(A, available_agents(A, order))
         IN IF agent # None
            THEN assign_task_to_agent(T, A, t, task_id, agent[1])
            ELSE Outcome(T, "ValueError: no available agent")

\* update_task_status that writes every optional field, supplied or not
update_task_status_writing_omitted(T, t, task_id, status_update) ==
    IF ~HasTask(T, task_id) THEN Outcome(T, "None")
    ELSE Outcome([T EXCEPT ![task_id] =
                     [@ EXCEPT !.status = status_update.status,
                               !.progress = IF status_update.progress # None
                                            THEN status_update.progress[1] ELSE 0,
                               !.output_data = status_update.output_data,
                               !.error_message = status_update.error_message,
                               !.completed_at =
                                   IF status_update.status \in
                                        {"COMPLETED", "FAILED", "CANCELLED"}
                                   THEN Some(t) ELSE @]],
                 "ok")

update_task_status(T, t, task_id, status_update) ==
    IF ~HasTask(T, task_id) THEN Outcome(T, "None")
    ELSE LET task == T[task_id]
             updated ==
                 [task EXCEPT
                    !.status = status_update.status,
                    !.progress = IF status_update.progress # None
                                 THEN status_update.progress[1] ELSE @,
                    !.output_data = IF status_update.output_data # None
                                    THEN status_update.output_data ELSE @,
                    !.error_message = IF status_update.error_message # None
                                      THEN status_update.error_message ELSE @,
                    !.completed_at =
                        IF status_update.status \in {"COMPLETED", "FAILED", "CANCELLED"}
                        THEN Some(t) ELSE @]
         IN Outcome([T EXCEPT ![task_id] = updated], "ok")

cancel_task(T, t, task_id) ==
    IF ~HasTask(T, task_id) THEN Outcome(T, "None")
    ELSE IF ~can_be_cancelled(T[task_id]) THEN Outcome(T, "ValueError: cannot cancel")
    ELSE Outcome([T EXCEPT ![task_id] =
                     [@ EXCEPT !.status = "CANCELLED", !.completed_at = Some(t)]],
                 "ok")

\* retry_task that keeps the error message of the failed run
retry_keeping_error(T, task_id) ==
    IF ~HasTask(T, task_id) THEN Outcome(T, "None")
    ELSE IF ~can_be_retried(T[task_id]) THEN Outcome(T, "ValueError: cannot retry")
    ELSE Outcome([T EXCEPT ![task_id] =
                     [@ EXCEPT !.status = "PENDING",
                               !.progress = 0,
                               !.started_at = None,
                               !.completed_at = None]],
                 "ok")

retry_task(T, task_id) ==
    IF ~HasTask(T, task_id) THEN Outcome(T, "None")
    ELSE IF ~can_be_retried(T[task_id]) THEN Outcome(T, "ValueError: cannot retry")
    ELSE Outcome([T EXCEPT ![task_id] =
                     [@ EXCEPT !.status = "PENDING",
                               !.progress = 0,
                               !.started_at = None,
                               !.completed_at = None,
                               !.error_message = None]],
                 "ok")

\* BaseService.create for a task: one INSERT, refused by the store when the
\* foreign key does not hold
create(T, A, task_data) ==
    IF ~ForeignKeyHolds(A, task_data.agent_id)
    THEN Outcome(T, "IntegrityError")
    ELSE Outcome(Insert(T, task_data.task_id,
                        NewTask(task_data.priority, task_data.agent_id)),
                 "ok")

\* create_task without the assignment to the agent the request names
create_task_never_assigning(T, A, t, task_data) ==
    IF HasTask(T, task_data.task_id) THEN Outcome(T, "ValueError: task id exists")
    ELSE create(T, A, task_data)

\* create_task without the test for an existing task_id
create_task_overwriting(T, A, t, task_data) ==
    LET created == create(T, A, task_data)
    IN IF created.result # "ok" THEN created
       ELSE IF Truthy(task_data.agent_id)
       THEN Outcome(assign_task_to_agent(created.tasks, A, t, task_data.task_id,
                                         task_data.agent_id[1]).tasks, "ok")
       ELSE created

create_task(T, A, t, task_data) ==
    IF HasTask(T, task_data.task_id) THEN Outcome(T, "ValueError: task id exists")
    ELSE LET created == create(T, A, task_data)
         IN IF created.result # "ok" THEN created
            ELSE IF Truthy(task_data.agent_id)
            THEN LET assigned == assign_task_to_agent(created.tasks, A, t,
                                     task_data.task_id, task_data.agent_id[1])
                 IN \* a ValueError of the assignment is swallowed
                    Outcome(assigned.tasks, "ok")
            ELSE created

\* BaseService.update with a TaskUpdate: only the fields that were set
update(task, task_update) ==
    [task EXCEPT !.priority = IF task_update.priority # None
                              THEN task_update.priority[1] ELSE @]

update_task(T, task_id, task_update) ==
    IF ~HasTask(T, task_id) THEN Outcome(T, "None")
    ELSE IF T[task_id].status = "RUNNING"
    THEN Outcome(T, "ValueError: running task not editable")
    ELSE Outcome([T EXCEPT ![task_id] = update(@, task_update)], "ok")

delete_task(T, task_id) ==
    IF ~HasTask(T, task_id) THEN Outcome(T, "None")
    ELSE IF T[task_id].status = "RUNNING"
    THEN Outcome(T, "ValueError: running task not deletable")
    ELSE Outcome(Remove(T, task_id), "ok")

(***************************************************************************)
(* AgentService                                                            *)
(***************************************************************************)
\* get_by_field("agent_id", name): is there a row with this agent_id
HasAgentNamed(A, name) == \E pk \in DOMAIN A : A[pk].agent_id = name

update_status(agent, status_update) ==
    [agent EXCEPT !.status = status_update.status,
                  !.is_enabled = IF status_update.is_enabled # None
                                 THEN status_update.is_enabled[1] ELSE @]

\* _get_cache_key(prefix, id)
get_cache_key(prefix, id) == prefix \o ":" \o ToString(id)

\* what a CacheService call leaves in Redis, what it returns, and whether it
\* raised
CacheResult(C, returned) == [cache |-> C, returned |-> returned, raised |-> FALSE]

\* CacheService.set that lets the Redis error out
cache_set_raising(C, key, value, redis_up) ==
    IF redis_up THEN CacheResult(Insert(C, key, value), TRUE)
    ELSE [cache |-> C, returned |-> FALSE, raised |-> TRUE]

\* CacheService.set: SET key value; False when Redis fails
cache_set(C, key, value, redis_up) ==
    IF redis_up THEN CacheResult(Insert(C, key, value), TRUE)
    ELSE CacheResult(C, FALSE)

\* CacheService.delete: DEL key, True when a key was removed; False when
\* Redis fails
cache_delete(C, key, redis_up) ==
    IF redis_up THEN CacheResult(Remove(C, key), key \in DOMAIN C)
    ELSE CacheResult(C, FALSE)

\* the outcome of an agent service call: the agents table, the sequence and
\* the cache it leaves, and its result
AgentOutcome(A, seq, C, result) ==
    [agents |-> A, agent_seq |-> seq, cache |-> C, result |-> result]

\* an exception of the cache call, if it raised one, ends the service call
AfterCache(A, seq, done, result) ==
    AgentOutcome(A, seq, done.cache, IF done.raised THEN "Exception" ELSE result)

create_agent(A, seq, C, name, redis_up) ==
    IF HasAgentNamed(A, name) THEN AgentOutcome(A, seq, C, "ValueError: agent id exists")
    ELSE LET pk == seq + 1
             created == Insert(A, pk, NewAgent(name))
         IN AfterCache(created, pk,
                       cache_set(C, get_cache_key("agent", pk), created[pk], redis_up),
                       "ok")

\* AgentService.update_status: the row is written, then its cache key dropped
agent_update_status(A, seq, C, pk, status_update, redis_up) ==
    IF ~HasAgent(A, pk) THEN AgentOutcome(A, seq, C, "None")
    ELSE AfterCache([A EXCEPT ![pk] = update_status(@, status_update)], seq,
                    cache_delete(C, get_cache_key("agent", pk), redis_up),
                    "ok")

\* update_agent reads agent_data.agent_id, a field AgentUpdate does not have
update_agent(A, seq, C, pk, agent_data, redis_up) ==
    IF ~HasAgent(A, pk) THEN AgentOutcome(A, seq, C, "None")
    ELSE AgentOutcome(A, seq, C, "AttributeError")

\* update_heartbeat: the request carries no timestamp, so last_heartbeat
\* becomes None; the status is the one the agent reports
update_heartbeat(A, seq, C, name, heartbeat_data) ==
    IF ~HasAgentNamed(A, name) THEN AgentOutcome(A, seq, C, "None")
    ELSE LET pk == CHOOSE k \in DOMAIN A : A[k].agent_id = name
         IN AgentOutcome([A EXCEPT ![pk] = [@ EXCEPT !.last_heartbeat = None,
                                                     !.status = heartbeat_data.status]],
                         seq, C, "ok")

\* running_tasks that counts the RUNNING tasks of every agent
running_tasks_of_any_agent(T, pk) ==
    {id \in DOMAIN T : T[id].agent_id # None /\ T[id].status = "RUNNING"}

\* delete_agent, first half: the tasks of the agent that are RUNNING
running_tasks(T, pk) ==
    {id \in DOMAIN T : T[id].agent_id = Some(pk) /\ T[id].status = "RUNNING"}

\* BaseService.delete for an agent: session.delete cascades to the tasks that
\* refer to the agent (cascade="all, delete-orphan"), then the commit
delete(T, A, pk) ==
    IF ~HasAgent(A, pk) THEN [tasks |-> T, agents |-> A, result |-> FALSE]
    ELSE [tasks |-> [id \in {i \in DOMAIN T : T[i].agent_id # Some(pk)} |-> T[id]],
          agents |-> Remove(A, pk),
          result |-> TRUE]

\* delete_agent, second half: the delete and, when a row went, the cache key
delete_agent(T, A, seq, C, pk, redis_up) ==
    LET deleted == delete(T, A, pk)
        out == IF deleted.result
               THEN AfterCache(deleted.agents, seq,
                               cache_delete(C, get_cache_key("agent", pk), redis_up),
                               "ok")
               ELSE AgentOutcome(A, seq, C, "None")
    IN [tasks |-> deleted.tasks, agents |-> out.agents, agent_seq |-> out.agent_seq,
        cache |-> out.cache, result |-> out.result]

\* what the reference service keeps of an outcome
Reference(outcome) ==
    [agents |-> outcome.agents, agent_seq |-> outcome.agent_seq, result |-> outcome.result]

(***************************************************************************)
(* Requests                                                                *)
(***************************************************************************)
\* the orders in which a SELECT without ORDER BY may return the rows of S
Orders(S) ==
    {o \in [1..Cardinality(S) -> S] : \A i, j \in 1..Cardinality(S) : o[i] = o[j] => i = j}

OptionalOf(S) == {None} \cup {Some(v) : v \in S}

\* create requests leave priority to its default; PUT /tasks/{task_id} changes it
TaskCreate == [task_id : TaskIds, priority : {DefaultPriority}, agent_id : OptionalOf(AgentRefs)]

\* how many of the optional fields of a status update are supplied
Supplied(status_update) ==
    Cardinality({f \in {"progress", "output_data", "error_message"} :
                    status_update[f] # None})

\* status updates that supply none, one or all of the optional fields
TaskStatusUpdate ==
    {su \in [status : TaskStatus,
             progress : OptionalOf(ProgressVals),
             output_data : OptionalOf(OutputVals),
             error_message : OptionalOf(ErrorVals)] : Supplied(su) \in {0, 1, 3}}

TaskUpdate == [priority : OptionalOf(Priorities)]

TaskExecutionRequest == [task_id : TaskIds, agent_id : OptionalOf(AgentRefs)]

AgentStatusUpdate == [status : AgentStatus, is_enabled : OptionalOf(BOOLEAN)]

\* PUT /agents/{agent_id} bodies: the name is the field that is set or not
AgentUpdate == [name : OptionalOf(AgentNames)]

AgentHeartbeatRequest == [agent_id : AgentNames, status : AgentStatus]

Request(op, task_id, agent, result) ==
    [op |-> op, task_id |-> task_id, agent |-> agent, result |-> result]

\* every request is handled at a later time than the one before
Tick == now < MaxTime /\ now' = now + 1

(***************************************************************************)
(* Task endpoints (api/v1/tasks.py)                                        *)
(***************************************************************************)
\* POST /tasks/
CreateTask(task_data) ==
    /\ Tick
    /\ LET r == create_task(tasks, agents, now, task_data)
       IN /\ tasks' = r.tasks
          /\ last' = Request("create", task_data.task_id, task_data.agent_id,
                             r.result)
    /\ UNCHANGED <<agents, agent_seq, cache, reference, pending_delete, in_flight>>
    /\ UNCHANGED supervisor_vars

\* POST /tasks/execute
ExecuteTask(execution_request, order) ==
    /\ Tick
    /\ IF Truthy(execution_request.agent_id)
       THEN LET r == assign_task_to_agent(tasks, agents, now,
                         execution_request.task_id, execution_request.agent_id[1])
            IN /\ tasks' = r.tasks
               /\ last' = Request("assign", execution_request.task_id,
                                  execution_request.agent_id, r.result)
       ELSE LET r == auto_assign_task(tasks, agents, now,
                         execution_request.task_id, order)
            IN /\ tasks' = r.tasks
               /\ last' = Request("auto_assign", execution_request.task_id,
                                  execution_request.agent_id, r.result)
    /\ UNCHANGED <<agents, agent_seq, cache, reference, pending_delete, in_flight>>
    /\ UNCHANGED supervisor_vars

\* PATCH /tasks/{task_id}/status
UpdateTaskStatus(task_id, status_data) ==
    /\ Tick
    /\ LET r == update_task_status(tasks, now, task_id, status_data)
       IN /\ tasks' = r.tasks
          /\ last' = Request("update_status", task_id, None, r.result)
    /\ UNCHANGED <<agents, agent_seq, cache, reference, pending_delete, in_flight>>
    /\ UNCHANGED supervisor_vars

\* bodies of POST /tasks/{task_id}/progress: progress is required, 0..100
TaskProgressUpdate == [progress : ProgressVals, output_data : OptionalOf(OutputVals)]

\* TaskStatusUpdate(**kwargs) as pydantic builds it: status is declared
\* Field(...), so a call without it raises ValidationError (a ValueError) and
\* no object is built; the other fields default to None
new_TaskStatusUpdate(kwargs) ==
    IF "status" \notin DOMAIN kwargs THEN None
    ELSE Some([f \in {"status", "progress", "output_data", "error_message"} |->
                  IF f \in DOMAIN kwargs THEN kwargs[f] ELSE None])

\* the endpoint builds the status update from progress and output_data alone
\* and hands it to update_task_status only if it could be built
update_task_progress(T, t, task_id, progress_data) ==
    LET status_update ==
            new_TaskStatusUpdate([progress |-> Some(progress_data.progress),
                                  output_data |-> progress_data.output_data])
    IN  IF status_update = None THEN Outcome(T, "ValueError: status field required")
        ELSE update_task_status(T, t, task_id, status_update[1])

\* POST /tasks/{task_id}/progress
UpdateTaskProgress(task_id, progress_data) ==
    /\ Tick
    /\ LET r == update_task_progress(tasks, now, task_id, progress_data)
       IN /\ tasks' = r.tasks
          /\ last' = Request("update_progress", task_id, None, r.result)
    /\ UNCHANGED <<agents, agent_seq, cache, reference, pending_delete, in_flight>>
    /\ UNCHANGED supervisor_vars

\* POST /tasks/{task_id}/cancel
CancelTask(task_id) ==
    /\ Tick
    /\ LET r == cancel_task(tasks, now, task_id)
       IN /\ tasks' = r.tasks
          /\ last' = Request("cancel", task_id, None, r.result)
    /\ UNCHANGED <<agents, agent_seq, cache, reference, pending_delete, in_flight>>
    /\ UNCHANGED supervisor_vars

\* POST /tasks/{task_id}/retry
RetryTask(task_id) ==
    /\ Tick
    /\ LET r == retry_task(tasks, task_id)
       IN /\ tasks' = r.tasks
          /\ last' = Request("retry", task_id, None, r.result)
    /\ UNCHANGED <<agents, agent_seq, cache, reference, pending_delete, in_flight>>
    /\ UNCHANGED supervisor_vars

\* PUT /tasks/{task_id}
UpdateTask(task_id, task_data) ==
    /\ Tick
    /\ LET r == update_task(tasks, task_id, task_data)
       IN /\ tasks' = r.tasks
          /\ last' = Request("update", task_id, None, r.result)
    /\ UNCHANGED <<agents, agent_seq, cache, reference, pending_delete, in_flight>>
    /\ UNCHANGED supervisor_vars

\* DELETE /tasks/{task_id}
DeleteTask(task_id) ==
    /\ Tick
    /\ LET r == delete_task(tasks, task_id)
       IN /\ tasks' = r.tasks
          /\ last' = Request("delete", task_id, None, r.result)
    /\ UNCHANGED <<agents, agent_seq, cache, reference, pending_delete, in_flight>>
    /\ UNCHANGED supervisor_vars

(***************************************************************************)
(* Agent endpoints (api/v1/agents.py)                                      *)
(***************************************************************************)
\* what an agent endpoint leaves: the service outcome for the store and the
\* cache, and the outcome of a service whose cache calls fail for the reference
AgentRequest(op, pk, outcome, without_cache) ==
    /\ agents' = outcome.agents
    /\ agent_seq' = outcome.agent_seq
    /\ cache' = outcome.cache
    /\ last' = Request(op, "", pk, outcome.result)
    /\ reference' = Reference(without_cache)

\* POST /agents/
CreateAgent(name, redis_up) ==
    /\ Tick
    /\ HasAgentNamed(agents, name) \/ agent_seq + 1 \in AgentPKs
    /\ LET r == create_agent(agents, agent_seq, cache, name, redis_up)
       IN AgentRequest("create_agent", IF r.result = "ok" THEN Some(r.agent_seq) ELSE None,
                       r,
                       create_agent(reference.agents, reference.agent_seq, cache,
                                    name, FALSE))
    /\ UNCHANGED <<tasks, pending_delete, in_flight>>
    /\ UNCHANGED supervisor_vars

\* GET /agents/{agent_id}
GetAgent(pk) ==
    /\ Tick
    /\ AgentRequest("get_agent", Some(pk),
                    AgentOutcome(agents, agent_seq, cache,
                                 IF HasAgent(agents, pk) THEN "ok" ELSE "None"),
                    AgentOutcome(reference.agents, reference.agent_seq, cache,
                                 IF HasAgent(reference.agents, pk) THEN "ok" ELSE "None"))
    /\ UNCHANGED <<tasks, pending_delete, in_flight>>
    /\ UNCHANGED supervisor_vars

\* PUT /agents/{agent_id}
UpdateAgent(pk, agent_data, redis_up) ==
    /\ Tick
    /\ AgentRequest("update_agent", Some(pk),
                    update_agent(agents, agent_seq, cache, pk, agent_data, redis_up),
                    update_agent(reference.agents, reference.agent_seq, cache, pk,
                                 agent_data, FALSE))
    /\ UNCHANGED <<tasks, pending_delete, in_flight>>
    /\ UNCHANGED supervisor_vars

\* PATCH /agents/{agent_id}/status
UpdateAgentStatus(pk, status_data, redis_up) ==
    /\ Tick
    /\ AgentRequest("update_agent_status", Some(pk),
                    agent_update_status(agents, agent_seq, cache, pk, status_data,
                                        redis_up),
                    agent_update_status(reference.agents, reference.agent_seq, cache,
                                        pk, status_data, FALSE))
    /\ UNCHANGED <<tasks, pending_delete, in_flight>>
    /\ UNCHANGED supervisor_vars

\* POST /agents/heartbeat
UpdateHeartbeat(heartbeat_data) ==
    /\ Tick
    /\ AgentRequest("heartbeat", None,
                    update_heartbeat(agents, agent_seq, cache, heartbeat_data.agent_id,
                                     heartbeat_data),
                    update_heartbeat(reference.agents, reference.agent_seq, cache,
                                     heartbeat_data.agent_id, heartbeat_data))
    /\ UNCHANGED <<tasks, pending_delete, in_flight>>
    /\ UNCHANGED supervisor_vars

\* DELETE /agents/{agent_id}, up to the result of the running-task query
DeleteAgentCheck(pk) ==
    /\ Tick
    /\ pending_delete = None
    /\ IF running_tasks(tasks, pk) # {}
       THEN /\ last' = Request("delete_agent", "", Some(pk),
                               "ValueError: agent has running tasks")
            /\ reference' = [reference EXCEPT !.result = last'.result]
            /\ UNCHANGED pending_delete
       ELSE /\ pending_delete' = Some(pk)
            /\ UNCHANGED <<last, reference>>
    /\ UNCHANGED <<tasks, agents, agent_seq, cache, in_flight>>
    /\ UNCHANGED supervisor_vars

\* DELETE /agents/{agent_id}, from self.delete(agent_id) to the response
DeleteAgentCommit(redis_up) ==
    /\ pending_delete # None
    /\ LET pk == pending_delete[1]
           r == delete_agent(tasks, agents, agent_seq, cache, pk, redis_up)
       IN /\ tasks' = r.tasks
          /\ AgentRequest("delete_agent", Some(pk), r,
                          delete_agent(tasks, reference.agents, reference.agent_seq,
                                       cache, pk, FALSE))
    /\ pending_delete' = None
    /\ UNCHANGED <<now, in_flight>>
    /\ UNCHANGED supervisor_vars

\* Redis drops a key whose time to live (3600 s) is over
ExpireKey(key) ==
    /\ key \in DOMAIN cache
    /\ cache' = Remove(cache, key)
    /\ UNCHANGED <<tasks, agents, agent_seq, now, last, reference, pending_delete, in_flight>>
    /\ UNCHANGED supervisor_vars

(***************************************************************************)
(* Specification                                                           *)
(***************************************************************************)
\* the agents table after registering the first n agent names
Registered(n) == [pk \in 1..n |-> NewAgent("a" \o ToString(pk))]

\* The service starts against a database without tasks that holds the agents
\* registered so far (none, or the rows POST /agents/ wrote); no request of
\* this run has been handled yet; Redis holds no key (none was set, or all
\* have expired) and the supervisor has no conversation.
Init ==
    /\ tasks = <<>>
    /\ agent_seq \in 0..Cardinality(AgentPKs)
    /\ agents = Registered(agent_seq)
    /\ now = 0
    /\ last = Request("none", "", None, "ok")
    /\ cache = <<>>
    /\ reference = [agents |-> agents, agent_seq |-> agent_seq, result |-> "ok"]
    /\ pending_delete = None
    /\ in_flight = <<>>
    /\ conversation_history = <<>>
    /\ appended = <<>>
    /\ reply = None
    /\ sdk_calls = <<>>
    /\ graph_run = None

Next ==
    \/ \E task_data \in TaskCreate : CreateTask(task_data)
    \/ \E execution_request \in TaskExecutionRequest :
          \E order \in Orders(DOMAIN agents) : ExecuteTask(execution_request, order)
    \/ \E task_id \in TaskIds : \E status_data \in TaskStatusUpdate :
          UpdateTaskStatus(task_id, status_data)
    \/ \E task_id \in TaskIds : CancelTask(task_id)
    \/ \E task_id \in TaskIds : RetryTask(task_id)
    \/ \E task_id \in TaskIds : \E task_data \in TaskUpdate : UpdateTask(task_id, task_data)
    \/ \E task_id \in TaskIds : DeleteTask(task_id)
    \/ \E name \in AgentNames : \E redis_up \in BOOLEAN : CreateAgent(name, redis_up)
    \/ \E pk \in AgentPKs : \E status_data \in AgentStatusUpdate :
          \E redis_up \in BOOLEAN : UpdateAgentStatus(pk, status_data, redis_up)

Spec == Init /\ [][Next]_vars

\* Progress reports next to the requests that create tasks and set their status.
ProgressNext ==
    \/ \E task_data \in TaskCreate : CreateTask(task_data)
    \/ \E task_id \in TaskIds : \E status_data \in TaskStatusUpdate :
          UpdateTaskStatus(task_id, status_data)
    \/ \E task_id \in TaskIds : \E progress_data \in TaskProgressUpdate :
          UpdateTaskProgress(task_id, progress_data)

SpecProgress == Init /\ [][ProgressNext]_vars

\* Agent deletion next to the task requests that start, stop and remove tasks.
\* delete_agent awaits the store twice, for the running-task query and for the
\* delete, and any other request can be handled between the two.
AgentDeleteNext ==
    \/ \E task_data \in TaskCreate : CreateTask(task_data)
    \/ \E execution_request \in TaskExecutionRequest :
          \E order \in Orders(DOMAIN agents) : ExecuteTask(execution_request, order)
    \/ \E task_id \in TaskIds : CancelTask(task_id)
    \/ \E task_id \in TaskIds : DeleteTask(task_id)
    \/ \E pk \in AgentPKs : DeleteAgentCheck(pk)
    \/ \E redis_up \in BOOLEAN : DeleteAgentCommit(redis_up)

SpecAgentDelete == Init /\ [][AgentDeleteNext]_vars

\* The agent registry with its cache: every agent request, each cache call of
\* which reaches Redis or fails, and the expiry of cached keys.
AgentRegistryNext ==
    \/ \E name \in AgentNames : \E redis_up \in BOOLEAN : CreateAgent(name, redis_up)
    \/ \E pk \in AgentPKs : GetAgent(pk)
    \/ \E pk \in AgentPKs : \E agent_data \in AgentUpdate :
          \E redis_up \in BOOLEAN : UpdateAgent(pk, agent_data, redis_up)
    \/ \E pk \in AgentPKs : \E status_data \in AgentStatusUpdate :
          \E redis_up \in BOOLEAN : UpdateAgentStatus(pk, status_data, redis_up)
    \/ \E heartbeat_data \in AgentHeartbeatRequest : UpdateHeartbeat(heartbeat_data)
    \/ \E pk \in AgentPKs : DeleteAgentCheck(pk)
    \/ \E redis_up \in BOOLEAN : DeleteAgentCommit(redis_up)
    \/ \E key \in DOMAIN cache : ExpireKey(key)

SpecAgentRegistry == Init /\ [][AgentRegistryNext]_vars

(***************************************************************************)
(* Task requests interleaved.  A service method gives way to the other     *)
(* requests at every await: between the SELECT of a request and its commit *)
(* the other requests read and commit.  Each request has its own session   *)
(* (get_db), nothing locks the row it read.                                *)
(***************************************************************************)
\* task requests in flight at a time
MaxInFlight == 2

\* a request between its SELECT and its commit: the row it loaded (None when
\* it found none), its body where it has one, and its reading of the clock
InFlight(op, task_id, loaded, task_data, t) ==
    [op |-> op, task_id |-> task_id, loaded |-> loaded, task_data |-> task_data, t |-> t]

\* the sequence without its i-th element
Without(requests, i) ==
    SubSeq(requests, 1, i - 1) \o SubSeq(requests, i + 1, Len(requests))

\* a table that holds one row
OneRow(task_id, row) == Insert(<<>>, task_id, row)

\* the commit of a session in which attributes of a loaded row were assigned:
\* the UPDATE carries the columns whose value differs from the value loaded,
\* and the stored row keeps every other column
flush(row, loaded, assigned) ==
    [column \in DOMAIN row |->
        IF assigned[column] # loaded[column] THEN assigned[column] ELSE row[column]]

\* the commit of a request that loaded a row and assigned attributes: the row
\* is updated where it is still stored; an UPDATE that matches no row raises
\* StaleDataError
Committed(T, task_id, loaded, assigned) ==
    IF HasTask(T, task_id)
    THEN Outcome([T EXCEPT ![task_id] = flush(@, loaded, assigned)], "ok")
    ELSE Outcome(T, "StaleDataError")

\* a request joins the requests in flight
Await(request) ==
    /\ Len(in_flight) < MaxInFlight
    /\ in_flight' = Append(in_flight, request)
    /\ UNCHANGED <<tasks, last>>

\* a request in flight commits and is answered
Answer(i, outcome) ==
    /\ tasks' = outcome.tasks
    /\ last' = Request(in_flight[i].op, in_flight[i].task_id, None, outcome.result)
    /\ in_flight' = Without(in_flight, i)
    /\ UNCHANGED now

\* POST /tasks/{task_id}/cancel up to `await self.db.commit()`: the row is
\* read and tested; a request that fails the test is answered at once
CancelTaskRead(task_id) ==
    /\ Tick
    /\ IF HasTask(tasks, task_id) /\ can_be_cancelled(tasks[task_id])
       THEN Await(InFlight("cancel", task_id, Some(tasks[task_id]), None, now))
       ELSE /\ last' = Request("cancel", task_id, None,
                               cancel_task(tasks, now, task_id).result)
            /\ UNCHANGED <<tasks, in_flight>>
    /\ UNCHANGED <<agents, agent_seq, cache, reference, pending_delete>>
    /\ UNCHANGED supervisor_vars

\* POST /tasks/{task_id}/cancel from its commit on: status and completed_at,
\* as assigned to the row that was loaded, are written
CancelTaskCommit(i) ==
    /\ i \in DOMAIN in_flight
    /\ in_flight[i].op = "cancel"
    /\ LET request  == in_flight[i]
           loaded   == request.loaded[1]
           assigned == cancel_task(OneRow(request.task_id, loaded), request.t,
                                   request.task_id).tasks[request.task_id]
       IN  Answer(i, Committed(tasks, request.task_id, loaded, assigned))
    /\ UNCHANGED <<agents, agent_seq, cache, reference, pending_delete>>
    /\ UNCHANGED supervisor_vars

\* POST /tasks/{task_id}/retry up to its commit
RetryTaskRead(task_id) ==
    /\ Tick
    /\ IF HasTask(tasks, task_id) /\ can_be_retried(tasks[task_id])
       THEN Await(InFlight("retry", task_id, Some(tasks[task_id]), None, now))
       ELSE /\ last' = Request("retry", task_id, None, retry_task(tasks, task_id).result)
            /\ UNCHANGED <<tasks, in_flight>>
    /\ UNCHANGED <<agents, agent_seq, cache, reference, pending_delete>>
    /\ UNCHANGED supervisor_vars

\* POST /tasks/{task_id}/retry from its commit on
RetryTaskCommit(i) ==
    /\ i \in DOMAIN in_flight
    /\ in_flight[i].op = "retry"
    /\ LET request  == in_flight[i]
           loaded   == request.loaded[1]
           assigned == retry_task(OneRow(request.task_id, loaded),
                                  request.task_id).tasks[request.task_id]
       IN  Answer(i, Committed(tasks, request.task_id, loaded, assigned))
    /\ UNCHANGED <<agents, agent_seq, cache, reference, pending_delete>>
    /\ UNCHANGED supervisor_vars

\* POST /tasks/ up to `await self.create(task_data)`: the task_id is looked
\* up; a request that finds it stored is answered at once
CreateTaskRead(task_data) ==
    /\ Tick
    /\ IF ~HasTask(tasks, task_data.task_id)
       THEN Await(InFlight("create", task_data.task_id, None, Some(task_data), now))
       ELSE /\ last' = Request("create", task_data.task_id, task_data.agent_id,
                               create_task(tasks, agents, now, task_data).result)
            /\ UNCHANGED <<tasks, in_flight>>
    /\ UNCHANGED <<agents, agent_seq, cache, reference, pending_delete>>
    /\ UNCHANGED supervisor_vars

\* POST /tasks/ from the INSERT on: tasks.task_id is unique, so the INSERT of
\* a task_id that was stored in the meantime raises IntegrityError, which no
\* handler of the endpoint catches; otherwise the rest of create_task runs
CreateTaskCommit(i) ==
    /\ i \in DOMAIN in_flight
    /\ in_flight[i].op = "create"
    /\ LET request == in_flight[i]
       IN  Answer(i, IF HasTask(tasks, request.task_id)
                     THEN Outcome(tasks, "IntegrityError")
                     ELSE create_task(tasks, agents, request.t, request.task_data[1]))
    /\ UNCHANGED <<agents, agent_seq, cache, reference, pending_delete>>
    /\ UNCHANGED supervisor_vars

\* Creates, cancels and retries that give way between their read and their
\* commit, next to status updates.
InterleavedNext ==
    \/ \E task_data \in TaskCreate : CreateTaskRead(task_data)
    \/ \E i \in 1..MaxInFlight : CreateTaskCommit(i)
    \/ \E task_id \in TaskIds : CancelTaskRead(task_id)
    \/ \E i \in 1..MaxInFlight : CancelTaskCommit(i)
    \/ \E task_id \in TaskIds : RetryTaskRead(task_id)
    \/ \E i \in 1..MaxInFlight : RetryTaskCommit(i)
    \/ \E task_id \in TaskIds : \E status_data \in TaskStatusUpdate :
          UpdateTaskStatus(task_id, status_data)

SpecInterleaved == Init /\ [][InterleavedNext]_vars

(***************************************************************************)
(* Conversation history of the supervisor                                  *)
(* (src/src/agents/supervisor_agent.py)                                    *)
(***************************************************************************)
\* thread ids chat requests carry
ThreadIds == {"default", "s1"}

\* turns added to the conversation histories in one run of SpecHistory
MaxAppends == 102

\* max_history: the turns a thread keeps
max_history == 100

\* metadata of a turn; a key the dict does not hold is None.  confidence is
\* kept in tenths (0.9 is 9).
Metadata(agent_used, confidence, error) ==
    [agent_used |-> agent_used, confidence |-> confidence, error |-> error]

\* metadata or {}
NoMetadata == Metadata(None, None, None)

\* self.conversation_history[thread_id], [] for a thread not seen yet
HistoryOf(H, thread_id) == IF thread_id \in DOMAIN H THEN H[thread_id] ELSE <<>>

\* datetime.now() on adding a turn to thread_id, A being the turns added so
\* far: the readings of a thread increase from turn to turn, and a reading is
\* kept as the number of the turn in its thread
Clock(A, thread_id) == Len(HistoryOf(A, thread_id)) + 1

\* Python's turns[-n:]
LastN(turns, n) ==
    IF Len(turns) <= n THEN turns ELSE SubSeq(turns, Len(turns) - n + 1, Len(turns))

\* the entry _add_to_history appends
Turn(message_type, content, timestamp, metadata) ==
    [type |-> message_type, content |-> content, timestamp |-> timestamp,
     metadata |-> metadata]

\* H with the turns of thread_id replaced
WithHistory(H, thread_id, turns) ==
    [t \in DOMAIN H \cup {thread_id} |-> IF t = thread_id THEN turns ELSE H[t]]

\* _add_to_history that cuts a full thread down to its oldest turns
add_to_history_keeping_oldest(H, timestamp, thread_id, message_type, content, metadata) ==
    LET grown == Append(HistoryOf(H, thread_id),
                        Turn(message_type, content, timestamp, metadata))
    IN  WithHistory(H, thread_id,
                    IF Len(grown) > max_history
                    THEN SubSeq(grown, 1, max_history)
                    ELSE grown)

\* SupervisorAgent._add_to_history
add_to_history(H, timestamp, thread_id, message_type, content, metadata) ==
    LET grown == Append(HistoryOf(H, thread_id),
                        Turn(message_type, content, timestamp, metadata))
    IN  WithHistory(H, thread_id,
                    IF Len(grown) > max_history
                    THEN LastN(grown, max_history)
                    ELSE grown)

\* the record A of every turn added, after thread_id was given one more turn
Recorded(A, thread_id, message_type, content, metadata) ==
    WithHistory(A, thread_id,
                Append(HistoryOf(A, thread_id),
                       Turn(message_type, content, Clock(A, thread_id), metadata)))

\* the turns added so far, over all threads
RECURSIVE TotalTurns(_, _)
TotalTurns(H, threads) ==
    IF threads = {} THEN 0
    ELSE LET t == CHOOSE t \in threads : TRUE
         IN  Len(H[t]) + TotalTurns(H, threads \ {t})

\* the store side of the service, which no chat request touches
store_vars ==
    <<tasks, agents, agent_seq, now, last, cache, reference, pending_delete, in_flight>>

\* One call of _add_to_history.
AddToHistory(thread_id, message_type, content, metadata) ==
    /\ TotalTurns(appended, DOMAIN appended) < MaxAppends
    /\ conversation_history' =
          add_to_history(conversation_history, Clock(appended, thread_id), thread_id,
                         message_type, content, metadata)
    /\ appended' = Recorded(appended, thread_id, message_type, content, metadata)
    /\ UNCHANGED <<reply, sdk_calls, graph_run>>
    /\ UNCHANGED store_vars

\* the turn a conversation adds next to a thread: the user's request, then the
\* answer of the general handler to it
TurnKinds(thread_id) ==
    IF Len(HistoryOf(appended, thread_id)) % 2 = 0
    THEN {<<"user", "hello", NoMetadata>>}
    ELSE {<<"assistant", "welcome", Metadata(Some("general"), Some(7), None)>>}

\* Conversations on the threads, turn by turn.
HistoryNext ==
    \E thread_id \in ThreadIds : \E turn \in TurnKinds(thread_id) :
        AddToHistory(thread_id, turn[1], turn[2], turn[3])

SpecHistory == Init /\ [][HistoryNext]_vars

(***************************************************************************)
(* Text of chat requests.  A Hangul syllable is written as its             *)
(* romanisation in braces, one token per syllable, so that a Korean        *)
(* keyword is a substring of a request exactly when it is one in Python:   *)
(* "{beo}{kit}" is the word for bucket, "{mok}{rok}" the word for list.    *)
(***************************************************************************)
\* Python's kw in s
Contains(s, kw) ==
    \E text \in {s} : \E word \in {kw} :
        \E i \in 1..(Len(text) - Len(word) + 1) :
            SubSeq(text, i, i + Len(word) - 1) = word

\* any(keyword in s for keyword in keywords)
AnyIn(keywords, s) == \E text \in {s} : \E kw \in keywords : Contains(text, kw)

\* the upper-case letters requests are written with, and their lower case
UpperCase == <<"A", "B", "C", "D", "E", "H", "L", "P", "S", "V", "W">>

LowerCase == <<"a", "b", "c", "d", "e", "h", "l", "p", "s", "v", "w">>

\* str.lower() of one character
LowerChar(c) ==
    IF \E i \in 1..Len(UpperCase) : UpperCase[i] = c
    THEN LowerCase[CHOOSE i \in 1..Len(UpperCase) : UpperCase[i] = c]
    ELSE c

\* str.lower(), as a function of the string
lower[s \in STRING] ==
    IF s = "" THEN "" ELSE LowerChar(SubSeq(s, 1, 1)) \o lower[SubSeq(s, 2, Len(s))]

\* the place of the first blank of s, Len(s) + 1 when it has none
FirstBlank(s) ==
    IF Contains(s, " ")
    THEN CHOOSE i \in 1..Len(s) :
            /\ SubSeq(s, i, i) = " "
            /\ \A j \in 1..(i - 1) : SubSeq(s, j, j) # " "
    ELSE Len(s) + 1

\* str.split(): the words between runs of blanks, as a function of the string
split[s \in STRING] ==
    IF s = "" THEN <<>>
    ELSE IF SubSeq(s, 1, 1) = " " THEN split[SubSeq(s, 2, Len(s))]
    ELSE <<SubSeq(s, 1, FirstBlank(s) - 1)>> \o split[SubSeq(s, FirstBlank(s), Len(s))]

\* the word after the first word of the query that is one of names and has a
\* word after it; otherwise the default
WordAfter(query, names, default) ==
    LET words == split[query]
        hits  == {i \in 1..(Len(words) - 1) : lower[words[i]] \in names}
    IN  IF hits = {} THEN default
        ELSE words[(CHOOSE i \in hits : \A j \in hits : i <= j) + 1]

\* the chat requests users send
UserRequests ==
    {"S3 {beo}{kit} {mok}{rok} {bo}{yeo}{jwo}",   \* S3, show the bucket list
     "list buckets",
     "list my S3 buckets",
     "hello",
     "S3 delete bucket",
     "S3 delete bucket logs",
     "S3 {beo}{kit} {sak}{je}",                   \* S3, delete bucket
     "delete vpc",
     "EC2 {in}{seu}{teon}{seu} {jong}{ryo}"}      \* EC2, terminate instance

\* the requests sent to the chat endpoint: one per way of routing a request
ChatRequests ==
    {"S3 {beo}{kit} {mok}{rok} {bo}{yeo}{jwo}",
     "list buckets",
     "list my S3 buckets",
     "hello",
     "delete vpc",
     "EC2 {in}{seu}{teon}{seu} {jong}{ryo}"}

(***************************************************************************)
(* Request analysis of the supervisor                                      *)
(***************************************************************************)
\* the keyword lists of analyze_request
EC2Keywords ==
    {"ec2", "aws", "{in}{seu}{teon}{seu}", "{seo}{beo}", "{keul}{la}{u}{deu}", "ami",
     "{bo}{an}{geu}{rup}"}

S3Keywords ==
    {"s3", "{beo}{kit}", "{gaek}{che}", "{pa}{il}", "{seu}{to}{ri}{ji}",
     "{eop}{ro}{deu}", "{da}{un}{ro}{deu}"}

VPCKeywords ==
    {"vpc", "{seo}{beu}{net}", "{bo}{an}{geu}{rup}", "{ne}{teu}{wo}{keu}", "cidr",
     "{ga}{yong}{yeong}{yeok}"}

\* the analysis analyze_request stores as routing_result; confidence in tenths
Analysis(agent_type, confidence) == [agent_type |-> agent_type, confidence |-> confidence]

\* analyze_request: the first keyword list with a keyword in the lower-cased
\* request decides.  (Its except branch needs str.lower or `in` to raise,
\* which they do not on a str.)
analyze_request(user_request) ==
    LET text == lower[user_request]
    IN  IF AnyIn(EC2Keywords, text) THEN Analysis("ec2", 9)
        ELSE IF AnyIn(S3Keywords, text) THEN Analysis("s3", 9)
        ELSE IF AnyIn(VPCKeywords, text) THEN Analysis("vpc", 9)
        ELSE Analysis("general", 7)

(***************************************************************************)
(* Resource tools (src/src/agents/s3_agent.py, vpc_agent.py, ec2_agent.py) *)
(***************************************************************************)
\* what a call of the cloud SDK does: it returns, raises botocore's
\* ClientError (the service refused the call), or raises another botocore
\* error (no credentials, no endpoint)
SdkOutcomes == {"ok", "ClientError", "BotoCoreError"}

\* one call made to the SDK: client.operation(argument)
SdkCall(client, operation, argument) ==
    [client |-> client, operation |-> operation, argument |-> argument]

\* S3Request / VPCRequest: the parsed action and the identifier parameter its
\* tool method reads
ToolRequest(action, identifier) == [action |-> action, identifier |-> identifier]

\* what a tool returns: a JSON object with its keys "action", "success" and
\* "error" (None for a key it lacks), or a plain sentence
ToolJson(action, success, error) ==
    [json |-> TRUE, action |-> action, success |-> success, error |-> error,
     text |-> None]

ToolText(sentence) ==
    [json |-> FALSE, action |-> None, success |-> None, error |-> None,
     text |-> Some(sentence)]

\* what running a tool did: its return value and the SDK calls it made
ToolRun(result, calls) == [result |-> result, calls |-> calls]

\* a tool method of the S3 and VPC tools around one SDK call: the call is made
\* with the identifier (None for a call without one); ClientError is returned
\* as JSON with success false, any other error leaves the method and _run
\* returns it as a sentence
CallSdk(client, action, operation, argument, sdk) ==
    ToolRun(CASE sdk = "ok"          -> ToolJson(Some(action), Some(TRUE), None)
              [] sdk = "ClientError" -> ToolJson(Some(action), Some(FALSE), Some("ClientError"))
              [] OTHER               -> ToolText("BotoCoreError"),
            <<SdkCall(client, operation, argument)>>)

\* AWSS3Tool._extract_bucket_name
extract_bucket_name(query) == WordAfter(query, {"{beo}{kit}", "bucket"}, "default-bucket")

\* AWSS3Tool._extract_object_key
extract_object_key(query) ==
    WordAfter(query, {"{gaek}{che}", "object", "{pa}{il}", "file"}, "default-object")

\* AWSS3Tool._parse_query: Korean phrases are looked up in the query as typed,
\* English ones in the lower-cased query
s3_parse_query(query) ==
    LET query_lower == lower[query]
        Has(korean, english) == Contains(query, korean) \/ Contains(query_lower, english)
    IN  CASE Has("{beo}{kit} {mok}{rok}", "list bucket") -> ToolRequest("list_buckets", None)
          [] Has("{beo}{kit} {saeng}{seong}", "create bucket") ->
                ToolRequest("create_bucket", Some(extract_bucket_name(query)))
          [] Has("{beo}{kit} {sak}{je}", "delete bucket") ->
                ToolRequest("delete_bucket", Some(extract_bucket_name(query)))
          [] Has("{gaek}{che} {mok}{rok}", "list object") ->
                ToolRequest("list_objects", Some(extract_bucket_name(query)))
          [] Has("{eop}{ro}{deu}", "upload") ->
                ToolRequest("upload_object", Some(extract_bucket_name(query)))
          [] Has("{da}{un}{ro}{deu}", "download") ->
                ToolRequest("download_object", Some(extract_bucket_name(query)))
          [] Has("{gaek}{che} {sak}{je}", "delete object") ->
                ToolRequest("delete_object", Some(extract_bucket_name(query)))
          [] Has("{beo}{kit} {jeong}{bo}", "bucket info") ->
                ToolRequest("get_bucket_info", Some(extract_bucket_name(query)))
          [] OTHER -> ToolRequest("unknown", None)

\* parameters.get(key, default)
GetOr(identifier, default) == IF identifier = None THEN default ELSE identifier[1]

\* AWSS3Tool._run after parsing: the method of the action is run
s3_dispatch(request_data, sdk) ==
    LET action      == request_data.action
        bucket_name == GetOr(request_data.identifier, "default-bucket")
    IN  CASE action = "list_buckets" ->
                CallSdk("s3", action, "list_buckets", None, sdk)
          [] action = "create_bucket" ->
                CallSdk("s3", action, "create_bucket", Some(bucket_name), sdk)
          [] action = "delete_bucket" ->
                CallSdk("s3", action, "delete_bucket", Some(bucket_name), sdk)
          [] action = "list_objects" ->
                CallSdk("s3", action, "list_objects_v2", Some(bucket_name), sdk)
          [] action \in {"upload_object", "download_object"} ->
                ToolRun(ToolJson(Some(action), Some(TRUE), None), <<>>)
          [] action = "delete_object" ->
                CallSdk("s3", action, "delete_object", Some(bucket_name), sdk)
          [] action = "get_bucket_info" ->
                \* the policy is asked for after the location; a ClientError of
                \* that second call (no policy) is swallowed
                LET location == CallSdk("s3", action, "get_bucket_location",
                                        Some(bucket_name), sdk)
                IN  IF sdk = "ok"
                    THEN ToolRun(location.result,
                                 location.calls \o
                                 <<SdkCall("s3", "get_bucket_policy", Some(bucket_name))>>)
                    ELSE location
          [] OTHER -> ToolRun(ToolText("unsupported action"), <<>>)

\* AWSS3Tool._run: parse the query and run the method of the action
s3_run(query, sdk) ==
    CHOOSE run \in {s3_dispatch(request_data, sdk) :
                       request_data \in {s3_parse_query(query)}} : TRUE

\* AWSVPCTool._extract_vpc_id
extract_vpc_id(query) == WordAfter(query, {"vpc"}, "vpc-default")

\* AWSVPCTool._extract_subnet_id
extract_subnet_id(query) ==
    WordAfter(query, {"{seo}{beu}{net}", "subnet"}, "subnet-default")

\* AWSVPCTool._extract_group_id
extract_group_id(query) == WordAfter(query, {"{geu}{rup}", "group"}, "sg-default")

\* AWSVPCTool._parse_query
vpc_parse_query(query) ==
    LET query_lower == lower[query]
        Has(korean, english) == Contains(query, korean) \/ Contains(query_lower, english)
    IN  CASE Has("vpc {mok}{rok}", "list vpc") -> ToolRequest("list_vpcs", None)
          [] Has("vpc {saeng}{seong}", "create vpc") -> ToolRequest("create_vpc", None)
          [] Has("vpc {sak}{je}", "delete vpc") ->
                ToolRequest("delete_vpc", Some(extract_vpc_id(query)))
          [] Has("{seo}{beu}{net} {mok}{rok}", "list subnet") ->
                ToolRequest("list_subnets", Some(extract_vpc_id(query)))
          [] Has("{seo}{beu}{net} {saeng}{seong}", "create subnet") ->
                ToolRequest("create_subnet", Some(extract_vpc_id(query)))
          [] Has("{seo}{beu}{net} {sak}{je}", "delete subnet") ->
                ToolRequest("delete_subnet", Some(extract_subnet_id(query)))
          [] Has("{bo}{an} {geu}{rup} {mok}{rok}", "list security group") ->
                ToolRequest("list_security_groups", Some(extract_vpc_id(query)))
          [] Has("{bo}{an} {geu}{rup} {saeng}{seong}", "create security group") ->
                ToolRequest("create_security_group", Some(extract_vpc_id(query)))
          [] Has("{bo}{an} {geu}{rup} {sak}{je}", "delete security group") ->
                ToolRequest("delete_security_group", Some(extract_group_id(query)))
          [] Has("vpc {jeong}{bo}", "vpc info") ->
                ToolRequest("get_vpc_info", Some(extract_vpc_id(query)))
          [] OTHER -> ToolRequest("unknown", None)

\* AWSVPCTool._run after parsing: the method of every action makes its SDK
\* call, with the identifier parsed or with the default of the key
vpc_dispatch(request_data, sdk) ==
    LET action     == request_data.action
        identifier == request_data.identifier
    IN  CASE action = "list_vpcs" ->
                CallSdk("ec2", action, "describe_vpcs", None, sdk)
          [] action = "create_vpc" ->
                CallSdk("ec2", action, "create_vpc", None, sdk)
          [] action = "delete_vpc" ->
                CallSdk("ec2", action, "delete_vpc",
                        Some(GetOr(identifier, "vpc-default")), sdk)
          [] action = "list_subnets" ->
                CallSdk("ec2", action, "describe_subnets", identifier, sdk)
          [] action = "create_subnet" ->
                CallSdk("ec2", action, "create_subnet",
                        Some(GetOr(identifier, "vpc-default")), sdk)
          [] action = "delete_subnet" ->
                CallSdk("ec2", action, "delete_subnet",
                        Some(GetOr(identifier, "subnet-default")), sdk)
          [] action = "list_security_groups" ->
                CallSdk("ec2", action, "describe_security_groups", identifier, sdk)
          [] action = "create_security_group" ->
                CallSdk("ec2", action, "create_security_group",
                        Some(GetOr(identifier, "vpc-default")), sdk)
          [] action = "delete_security_group" ->
                CallSdk("ec2", action, "delete_security_group",
                        Some(GetOr(identifier, "sg-default")), sdk)
          [] action = "get_vpc_info" ->
                CallSdk("ec2", action, "describe_vpcs",
                        Some(GetOr(identifier, "vpc-default")), sdk)
          [] OTHER -> ToolRun(ToolText("unsupported action"), <<>>)

\* AWSVPCTool._run: parse the query and run the method of the action
vpc_run(query, sdk) ==
    CHOOSE run \in {vpc_dispatch(request_data, sdk) :
                       request_data \in {vpc_parse_query(query)}} : TRUE

\* the queries given to the EC2 tool: the JSON text of an action on instances
\* and its InstanceIds parameter (create_instance, which builds its call from
\* six defaulted parameters, is left out)
EC2Actions ==
    {"list_instances", "stop_instance", "start_instance", "terminate_instance",
     "describe_instance", "reboot_instance"}

EC2Queries == [action : EC2Actions, InstanceIds : {<<>>, <<"i-1">>}]

\* what the EC2 tool returns: JSON with "success": true, or with "error" only
EC2Json(success, error) == ToolJson(None, success, error)

\* a tool method of the EC2 tool around one SDK call: ClientError is caught
\* by the method and any other error by _run, both returned as {"error": ...}
CallEC2(operation, argument, sdk) ==
    ToolRun(CASE sdk = "ok"          -> EC2Json(Some(TRUE), None)
              [] sdk = "ClientError" -> EC2Json(None, Some("ClientError"))
              [] OTHER               -> EC2Json(None, Some("BotoCoreError")),
            <<SdkCall("ec2", operation, argument)>>)

\* the methods of the EC2 tool that act on given instances: without
\* InstanceIds they return an error and make no call; with them the call is
\* made for the list (of one id, in the queries above)
OnInstances(operation, instance_ids, sdk) ==
    IF instance_ids = <<>>
    THEN ToolRun(EC2Json(None, Some("InstanceIds required")), <<>>)
    ELSE CallEC2(operation, Some(instance_ids[1]), sdk)

\* AWSCCTool._run
ec2_run(query, sdk) ==
    CASE query.action = "list_instances" -> CallEC2("describe_instances", None, sdk)
      [] query.action = "stop_instance" ->
            OnInstances("stop_instances", query.InstanceIds, sdk)
      [] query.action = "start_instance" ->
            OnInstances("start_instances", query.InstanceIds, sdk)
      [] query.action = "terminate_instance" ->
            OnInstances("terminate_instances", query.InstanceIds, sdk)
      [] query.action = "describe_instance" ->
            OnInstances("describe_instances", query.InstanceIds, sdk)
      [] OTHER -> ToolRun(EC2Json(None, Some("unsupported action")), <<>>)

(***************************************************************************)
(* Resource agents and the supervisor's request handling                   *)
(***************************************************************************)
\* a result dict without keys; a key a result holds is Some(value)
NoKeys ==
    [success |-> None, agent_type |-> None, response |-> None, error |-> None,
     message |-> None, agent_used |-> None, confidence |-> None,
     routing_info |-> None, tool_result |-> None]

\* {"success": False, "error": ..., "message": ...}
Failure(error, message) ==
    [NoKeys EXCEPT !.success = Some(FALSE), !.error = Some(error),
                   !.message = Some(message)]

\* what handling a request did: the result dict and the SDK calls made
AgentRun(result, calls) == [result |-> result, calls |-> calls]

\* keywords the rule-based answers look for
CreateWords == {"{saeng}{seong}", "{man}{deul}", "create"}

ListWords == {"{mok}{rok}", "{ri}{seu}{teu}", "{jo}{hoe}", "list"}

\* S3Agent._generate_rule_based_response: which of its five sentences
s3_rule_based_response(user_request) ==
    LET text == lower[user_request]
    IN  CASE AnyIn(CreateWords, text) -> "how to create a bucket"
          [] AnyIn(ListWords, text) -> "listing the buckets"
          [] AnyIn({"{eop}{ro}{deu}", "upload"}, text) -> "how to upload"
          [] AnyIn({"{da}{un}{ro}{deu}", "download"}, text) -> "how to download"
          [] OTHER -> "what the S3 agent can do"

\* VPCAgent._generate_rule_based_response: which of its five sentences
vpc_rule_based_response(user_request) ==
    LET text == lower[user_request]
    IN  CASE AnyIn(CreateWords, text) -> "how to create a VPC"
          [] AnyIn(ListWords, text) -> "listing the VPCs"
          [] AnyIn({"{seo}{beu}{net}", "subnet"}, text) -> "how to manage subnets"
          [] AnyIn({"{bo}{an}{geu}{rup}", "security group"}, text) ->
                "how to manage security groups"
          [] OTHER -> "what the VPC agent can do"

\* the result S3Agent and VPCAgent build from the answer sentence and the
\* tool run: "success": True with the tool's return value under "tool_result"
Answered(agent_type, response_text, run) ==
    AgentRun([NoKeys EXCEPT !.success = Some(TRUE),
                            !.agent_type = Some(agent_type),
                            !.response = Some(response_text),
                            !.tool_result = Some(run.result),
                            !.confidence = Some(9)],
             run.calls)

\* S3Agent.process_request: the answer sentence, the tool run on the request,
\* and a result that is a success whatever the tool returned
s3_process_request(user_request, sdk) ==
    Answered("s3", s3_rule_based_response(user_request), s3_run(user_request, sdk))

\* VPCAgent.process_request
vpc_process_request(user_request, sdk) ==
    Answered("vpc", vpc_rule_based_response(user_request), vpc_run(user_request, sdk))

\* EC2Agent._analyze_request_rule_based: the action
ec2_analyze_request_rule_based(user_request) ==
    LET text == lower[user_request]
    IN  CASE AnyIn(ListWords \cup {"{bo}{yeo}", "show"}, text) -> "list_instances"
          [] AnyIn(CreateWords \cup {"launch"}, text) -> "create_instance"
          [] AnyIn({"{jung}{ji}", "{jeong}{ji}", "stop", "shutdown"}, text) ->
                "stop_instance"
          [] OTHER -> "list_instances"

\* EC2Agent.process_request: the action found by the rules is answered with
\* a sentence (_create_simple_response); the EC2 tool is not run
ec2_process_request(user_request) ==
    AgentRun([NoKeys EXCEPT !.success = Some(TRUE),
                            !.agent_type = Some("ec2"),
                            !.response =
                                Some("handled " \o ec2_analyze_request_rule_based(user_request)),
                            !.confidence = Some(9)],
             <<>>)

\* SupervisorAgent._generate_general_response: which of its four sentences
generate_general_response(user_request) ==
    LET text == lower[user_request]
    IN  CASE AnyIn({"{an}{nyeong}", "hello", "hi"}, text) -> "greeting"
          [] AnyIn({"{do}{um}", "help", "{do}{um}{mal}"}, text) -> "what the system can do"
          [] AnyIn({"{seol}{myeong}", "{so}{gae}", "introduction"}, text) ->
                "what the system is"
          [] OTHER -> "welcome"

\* what can go wrong around a handler: nothing; the agent cannot be built or
\* run (the handler, or route_to_agent, catches the exception); the graph
\* run itself raises
Faults == {"none", "agent", "graph"}

\* route_to_agent with _handle_ec2_request, _handle_s3_request,
\* _handle_vpc_request and _handle_general_request: the result of the agent,
\* or the failure dict built from the exception
route_to_agent(agent_type, user_request, sdk, fault) ==
    IF fault = "agent" /\ agent_type # "general"
    THEN AgentRun(Failure("exception of the " \o agent_type \o " agent",
                          "error handling the request"), <<>>)
    ELSE CASE agent_type = "ec2" -> ec2_process_request(user_request)
           [] agent_type = "s3"  -> s3_process_request(user_request, sdk)
           [] agent_type = "vpc" -> vpc_process_request(user_request, sdk)
           [] OTHER ->
                AgentRun([NoKeys EXCEPT !.success = Some(TRUE),
                                        !.response =
                                            Some(generate_general_response(user_request)),
                                        !.agent_type = Some("general")],
                         <<>>)

\* agent_result and agent_result.get("success")
Succeeded(agent_result) == agent_result.success = Some(TRUE)

\* the turn of generate_response: [message_type, content, metadata]
ResponseTurn(message_type, content, metadata) ==
    [type |-> message_type, content |-> content, metadata |-> metadata]

\* generate_response that records a failed handler as a system error
generate_response_system_error(analysis, agent_result) ==
    IF Succeeded(agent_result)
    THEN ResponseTurn("assistant", agent_result.response[1],
                      Metadata(Some(analysis.agent_type), Some(analysis.confidence), None))
    ELSE ResponseTurn("system_error", "sorry: " \o agent_result.error[1],
                      Metadata(None, None, agent_result.error))

\* generate_response: the final message and the assistant turn added for it,
\* for a success and for a failure of the handler alike
generate_response(analysis, agent_result) ==
    IF Succeeded(agent_result)
    THEN ResponseTurn("assistant", agent_result.response[1],
                      Metadata(Some(analysis.agent_type), Some(analysis.confidence), None))
    ELSE ResponseTurn("assistant", "sorry: " \o agent_result.error[1],
                      Metadata(Some(analysis.agent_type), None, agent_result.error))

\* the final state of the graph run on a request: analyze_request, then
\* route_to_agent, then generate_response
FinalState(analysis, run, turn) == [analysis |-> analysis, run |-> run, turn |-> turn]

\* the graph after route_to_agent
responded(analysis, run) == FinalState(analysis, run, generate_response(analysis, run.result))

\* the graph after analyze_request
routed(analysis, user_request, sdk, fault) ==
    CHOOSE final_state \in
        {responded(analysis, run) :
            run \in {route_to_agent(analysis.agent_type, user_request, sdk, fault)}} : TRUE

\* the graph: START -> analyze_request -> route_to_agent -> generate_response
run_graph(user_request, sdk, fault) ==
    CHOOSE final_state \in
        {routed(analysis, user_request, sdk, fault) :
            analysis \in {analyze_request(user_request)}} : TRUE

\* what SupervisorAgent.process_request did: the histories, the record of
\* the turns added, the dict returned and the SDK calls made
Processed(H, A, result, calls) ==
    [history |-> H, appended |-> A, result |-> result, calls |-> calls]

\* the dict process_request builds from the final state of the graph
result_of(analysis, agent_result, final_response) ==
    IF Succeeded(agent_result)
    THEN [NoKeys EXCEPT !.success = Some(TRUE),
                        !.response = Some(final_response),
                        !.agent_used = Some(analysis.agent_type),
                        !.confidence = Some(analysis.confidence),
                        !.routing_info = Some(analysis)]
    ELSE [NoKeys EXCEPT !.success = Some(FALSE),
                        !.response = Some(final_response),
                        !.error = agent_result.error,
                        !.agent_used = Some(analysis.agent_type),
                        !.routing_info = Some(analysis)]

\* process_request once the graph has run: generate_response has added its
\* turn to the thread, and the dict is returned
returned(H1, A1, thread_id, final_state) ==
    Processed(add_to_history(H1, Clock(A1, thread_id), thread_id, final_state.turn.type,
                             final_state.turn.content, final_state.turn.metadata),
              Recorded(A1, thread_id, final_state.turn.type, final_state.turn.content,
                       final_state.turn.metadata),
              result_of(final_state.analysis, final_state.run.result,
                        final_state.turn.content),
              final_state.run.calls)

\* process_request when the graph raised: the system_error turn and the
\* failure dict
raised(H1, A1, thread_id, error, error_response) ==
    Processed(add_to_history(H1, Clock(A1, thread_id), thread_id, "system_error",
                             error_response, Metadata(None, None, Some(error))),
              Recorded(A1, thread_id, "system_error", error_response,
                       Metadata(None, None, Some(error))),
              Failure(error, error_response),
              <<>>)

\* SupervisorAgent.process_request (and process_request_async, the same code
\* around graph.ainvoke): the user turn, then the graph analyze_request ->
\* route_to_agent -> generate_response and the result built from its final
\* state, or the system_error turn and the failure dict when the graph raises
supervisor_process_request(H, A, user_request, thread_id, invoked) ==
    LET H1 == add_to_history(H, Clock(A, thread_id), thread_id, "user", user_request,
                             NoMetadata)
        A1 == Recorded(A, thread_id, "user", user_request, NoMetadata)
    IN  IF invoked = None
        THEN raised(H1, A1, thread_id, "exception of the graph",
                    "system error handling the request")
        ELSE returned(H1, A1, thread_id, invoked[1])

\* self.graph.invoke(initial_state): the final state of the graph, or None
\* when the graph run raises
invoke(user_request, sdk, fault) ==
    IF fault = "graph" THEN None ELSE Some(run_graph(user_request, sdk, fault))

\* SupervisorAgent.stream_request with every chunk taken: no user turn is
\* added; the graph runs as in process_request, generate_response adds its
\* turn to the thread, and the last chunk carries the final response.  When
\* the graph raises, the chunk {"error": ..., "message": ...} is yielded and
\* the history is left alone.
supervisor_stream_request(H, A, user_request, thread_id, invoked) ==
    IF invoked = None
    THEN Processed(H, A,
                   [NoKeys EXCEPT !.error = Some("exception of the graph"),
                                  !.message = Some("error streaming the request")],
                   <<>>)
    ELSE Processed(add_to_history(H, Clock(A, thread_id), thread_id, invoked[1].turn.type,
                                  invoked[1].turn.content, invoked[1].turn.metadata),
                   Recorded(A, thread_id, invoked[1].turn.type, invoked[1].turn.content,
                            invoked[1].turn.metadata),
                   [NoKeys EXCEPT !.response = Some(invoked[1].turn.content)],
                   invoked[1].run.calls)

(***************************************************************************)
(* Chat requests and direct calls of the resource agents and tools         *)
(***************************************************************************)
\* chat requests one run of SpecSupervisor handles
MaxRequests == 2

\* SDK calls one run of SpecTools makes
MaxCalls == 2

\* the call handled last: what was called, with which request (the text, or
\* the action of an EC2 query with its InstanceIds), and what it returned
Reply(op, request, thread_id, instance_ids, result) ==
    [op |-> op, request |-> request, thread_id |-> thread_id,
     instance_ids |-> instance_ids, result |-> result]

\* POST /multi-agent/chat and the CLI: SupervisorAgent.process_request
Route(user_request, thread_id, sdk, fault) ==
    \E invoked \in {invoke(user_request, sdk, fault)} :
    \E done \in {supervisor_process_request(conversation_history, appended,
                                             user_request, thread_id, invoked)} :
        /\ TotalTurns(appended, DOMAIN appended) + 2 <= 2 * MaxRequests
        /\ conversation_history' = done.history
        /\ appended' = done.appended
        /\ reply' = Some(Reply("process_request", user_request, Some(thread_id), <<>>,
                               done.result))
        /\ sdk_calls' = sdk_calls \o done.calls
        /\ UNCHANGED graph_run
        /\ UNCHANGED store_vars

\* a caller iterating SupervisorAgent.stream_request to its end
Stream(user_request, thread_id, sdk, fault) ==
    \E invoked \in {invoke(user_request, sdk, fault)} :
    \E done \in {supervisor_stream_request(conversation_history, appended,
                                            user_request, thread_id, invoked)} :
        /\ TotalTurns(appended, DOMAIN appended) + 2 <= 2 * MaxRequests
        /\ conversation_history' = done.history
        /\ appended' = done.appended
        /\ reply' = Some(Reply("stream_request", user_request, Some(thread_id), <<>>,
                               done.result))
        /\ sdk_calls' = sdk_calls \o done.calls
        /\ UNCHANGED graph_run
        /\ UNCHANGED store_vars

\* a direct call of a resource agent or tool that returned result after making
\* the SDK calls of calls
Called(op, request, instance_ids, result, calls) ==
    /\ reply' = Some(Reply(op, request, None, instance_ids, result))
    /\ sdk_calls' = sdk_calls \o calls
    /\ UNCHANGED <<conversation_history, appended, graph_run>>
    /\ UNCHANGED store_vars

\* S3Agent.process_request
S3AgentRequest(user_request, sdk) ==
    \E done \in {s3_process_request(user_request, sdk)} :
        /\ Len(sdk_calls) + Len(done.calls) <= MaxCalls
        /\ Called("s3_agent", user_request, <<>>, done.result, done.calls)

\* VPCAgent.process_request
VPCAgentRequest(user_request, sdk) ==
    \E done \in {vpc_process_request(user_request, sdk)} :
        /\ Len(sdk_calls) + Len(done.calls) <= MaxCalls
        /\ Called("vpc_agent", user_request, <<>>, done.result, done.calls)

\* EC2Agent.process_request
EC2AgentRequest(user_request) ==
    \E done \in {ec2_process_request(user_request)} :
        /\ Len(sdk_calls) + Len(done.calls) <= MaxCalls
        /\ Called("ec2_agent", user_request, <<>>, done.result, done.calls)

\* AWSCCTool._run on the JSON text of query
EC2ToolRun(query, sdk) ==
    \E done \in {ec2_run(query, sdk)} :
        /\ Len(sdk_calls) + Len(done.calls) <= MaxCalls
        /\ Called("ec2_tool", query.action, query.InstanceIds,
                  [NoKeys EXCEPT !.tool_result = Some(done.result)], done.calls)

\* Chat requests on the threads of the supervisor.
SupervisorNext ==
    \E user_request \in ChatRequests : \E thread_id \in ThreadIds :
        \E fault \in Faults : \E sdk \in (IF fault = "none" THEN SdkOutcomes ELSE {"ok"}) :
            Route(user_request, thread_id, sdk, fault)

SpecSupervisor == Init /\ [][SupervisorNext]_vars

\* The resource agents and the EC2 tool called one by one.
ToolsNext ==
    \/ \E user_request \in UserRequests : \E sdk \in SdkOutcomes :
          S3AgentRequest(user_request, sdk)
    \/ \E user_request \in UserRequests : \E sdk \in SdkOutcomes :
          VPCAgentRequest(user_request, sdk)
    \/ \E user_request \in UserRequests : EC2AgentRequest(user_request)
    \/ \E query \in EC2Queries : \E sdk \in SdkOutcomes : EC2ToolRun(query, sdk)

SpecTools == Init /\ [][ToolsNext]_vars

(***************************************************************************)
(* The graph of the supervisor run node by node                            *)
(* (SupervisorAgent._build_graph and process_request around graph.invoke)  *)
(***************************************************************************)
\* the edges with one more, from generate_response back to route_to_agent
EdgesWithLoopBack ==
    {<<"START", "analyze_request">>,
     <<"analyze_request", "route_to_agent">>,
     <<"route_to_agent", "generate_response">>,
     <<"generate_response", "route_to_agent">>,
     <<"generate_response", "END">>}

\* graph.add_edge(START, "analyze_request") and the three calls after it
Edges ==
    {<<"START", "analyze_request">>,
     <<"analyze_request", "route_to_agent">>,
     <<"route_to_agent", "generate_response">>,
     <<"generate_response", "END">>}

\* chat requests whose graph is followed node by node: one for the storage
\* agent, one for the general handler, one for the network agent
GraphRequests == {"S3 {beo}{kit} {mok}{rok} {bo}{yeo}{jwo}", "hello", "delete vpc"}

\* AgentState of a graph run, with the node reached, the nodes run so far and
\* the number of handler calls made; a key not set yet is None
GraphRun(user_request, thread_id, sdk, fault) ==
    [user_request |-> user_request, thread_id |-> thread_id, sdk |-> sdk, fault |-> fault,
     node |-> "START", visited |-> <<>>, handlers |-> 0,
     analysis |-> None, run |-> None, turn |-> None]

\* the state after node has run on it
run_node(state, node) ==
    CASE node = "analyze_request" ->
            [state EXCEPT !.analysis = Some(analyze_request(state.user_request))]
      [] node = "route_to_agent" ->
            [state EXCEPT !.run = Some(route_to_agent(state.analysis[1].agent_type,
                                                      state.user_request, state.sdk,
                                                      state.fault)),
                          !.handlers = @ + 1]
      [] node = "generate_response" ->
            [state EXCEPT !.turn = Some(generate_response(state.analysis[1],
                                                          state.run[1].result))]
      [] OTHER -> state

\* process_request up to graph.invoke: the user turn is added and the graph
\* is entered at START
Receive(user_request, thread_id, sdk, fault) ==
    /\ graph_run = None
    /\ TotalTurns(appended, DOMAIN appended) + 2 <= 2 * MaxRequests
    /\ conversation_history' =
          add_to_history(conversation_history, Clock(appended, thread_id), thread_id,
                         "user", user_request, NoMetadata)
    /\ appended' = Recorded(appended, thread_id, "user", user_request, NoMetadata)
    /\ graph_run' = Some(GraphRun(user_request, thread_id, sdk, fault))
    /\ UNCHANGED <<reply, sdk_calls>>
    /\ UNCHANGED store_vars

\* what a node leaves outside the state of the graph: route_to_agent the SDK
\* calls of its handler, generate_response its turn of the history
NodeEffects(state, node) ==
    /\ sdk_calls' = IF node = "route_to_agent"
                    THEN sdk_calls \o state.run[1].calls ELSE sdk_calls
    /\ IF node = "generate_response"
       THEN /\ conversation_history' =
                  add_to_history(conversation_history, Clock(appended, state.thread_id),
                                 state.thread_id, state.turn[1].type,
                                 state.turn[1].content, state.turn[1].metadata)
            /\ appended' = Recorded(appended, state.thread_id, state.turn[1].type,
                                    state.turn[1].content, state.turn[1].metadata)
       ELSE UNCHANGED <<conversation_history, appended>>

\* the graph follows an edge from the node it has reached and runs the node
\* at the end of the edge
GraphStep(edge) ==
    /\ graph_run # None
    /\ graph_run[1].fault # "graph"
    /\ edge[1] = graph_run[1].node
    /\ edge[2] # "END"
    /\ \E state \in {run_node(graph_run[1], edge[2])} :
          /\ graph_run' = Some([state EXCEPT !.node = edge[2],
                                             !.visited = Append(@, edge[2])])
          /\ NodeEffects(state, edge[2])
    /\ UNCHANGED reply
    /\ UNCHANGED store_vars

\* the graph follows an edge to END: graph.invoke returns the final state and
\* process_request returns the dict it builds from it
GraphReturn(edge) ==
    /\ graph_run # None
    /\ graph_run[1].fault # "graph"
    /\ edge[1] = graph_run[1].node
    /\ edge[2] = "END"
    /\ reply' = Some(Reply("process_request", graph_run[1].user_request,
                           Some(graph_run[1].thread_id), <<>>,
                           result_of(graph_run[1].analysis[1], graph_run[1].run[1].result,
                                     graph_run[1].turn[1].content)))
    /\ graph_run' = None
    /\ UNCHANGED <<conversation_history, appended, sdk_calls>>
    /\ UNCHANGED store_vars

\* graph.invoke raises: the except branch of process_request adds the
\* system_error turn and returns the failure dict
GraphRaises ==
    /\ graph_run # None
    /\ graph_run[1].fault = "graph"
    /\ \E done \in {raised(conversation_history, appended, graph_run[1].thread_id,
                           "exception of the graph", "system error handling the request")} :
          /\ conversation_history' = done.history
          /\ appended' = done.appended
          /\ reply' = Some(Reply("process_request", graph_run[1].user_request,
                                 Some(graph_run[1].thread_id), <<>>, done.result))
    /\ graph_run' = None
    /\ UNCHANGED sdk_calls
    /\ UNCHANGED store_vars

\* the chat request that is being handled goes on
GraphProgress ==
    \/ \E edge \in Edges : GraphStep(edge)
    \/ \E edge \in Edges : GraphReturn(edge)
    \/ GraphRaises

\* Chat requests one at a time, the graph of each followed edge by edge.
GraphNext ==
    \/ \E user_request \in GraphRequests : \E thread_id \in ThreadIds :
          \E fault \in Faults : \E sdk \in (IF fault = "none" THEN SdkOutcomes ELSE {"ok"}) :
             Receive(user_request, thread_id, sdk, fault)
    \/ \E edge \in Edges : GraphStep(edge)
    \/ \E edge \in Edges : GraphReturn(edge)
    \/ GraphRaises

\* A node of the graph is synchronous code and ends (the SDK calls of a
\* handler have the timeouts of botocore), so a call that is being handled
\* goes on.
SpecGraph == Init /\ [][GraphNext]_vars /\ WF_vars(GraphProgress)

\* Chat requests one after another, each through process_request (or
\* process_request_async) or through stream_request.
SessionNext ==
    \/ \E user_request \in GraphRequests : \E thread_id \in ThreadIds :
          \E fault \in Faults : \E sdk \in (IF fault = "none" THEN SdkOutcomes ELSE {"ok"}) :
             Route(user_request, thread_id, sdk, fault)
    \/ \E user_request \in GraphRequests : \E thread_id \in ThreadIds :
          \E fault \in Faults : \E sdk \in (IF fault = "none" THEN SdkOutcomes ELSE {"ok"}) :
             Stream(user_request, thread_id, sdk, fault)

SpecSession == Init /\ [][SessionNext]_vars

(***************************************************************************)
(* The error classes of the task lifecycle tracker, by the failure the     *)
(* service reports: a None / False return (answered 404) or the ValueError *)
(* it raises (answered 400).                                               *)
(***************************************************************************)
DuplicateKey(result) == result = "ValueError: task id exists"

NotFound(result) == result \in {"None", "ValueError: agent not found"}

PreconditionFailed(result) ==
    result \in {"ValueError: agent cannot accept",
                "ValueError: cannot cancel",
                "ValueError: cannot retry",
                "ValueError: running task not editable",
                "ValueError: running task not deletable",
                "ValueError: agent has running tasks"}

ResourceExhausted(result) == result = "ValueError: no available agent"

\* the step handles a request of kind op
Handles(op) == last'.op = op

(***************************************************************************)
(* Properties                                                              *)
(***************************************************************************)

C2_DuplicateCreateRejected ==
    [][Handles("create") /\ last'.task_id \in DOMAIN tasks
         => /\ DuplicateKey(last'.result)
            /\ tasks' = tasks
            /\ agents' = agents]_vars

\* C2 witness: a create was refused as a duplicate of a task that had moved on
C2_Witness ==
    /\ last.op = "create"
    /\ DuplicateKey(last.result)
    /\ last.task_id \in DOMAIN tasks
    /\ tasks[last.task_id].status # "PENDING"

\* C3: retry of an existing task succeeds exactly when its status is FAILED or
\* TIMEOUT; in every other status it fails with PreconditionFailed and the
\* tasks table is unchanged.
C3_RetryIffFailedOrTimeout ==
    [][Handles("retry") /\ last'.task_id \in DOMAIN tasks
         => LET status == tasks[last'.task_id].status
            IN /\ last'.result = "ok" <=> status \in {"FAILED", "TIMEOUT"}
               /\ status \in {"PENDING", "RUNNING", "COMPLETED", "CANCELLED"}
                    => PreconditionFailed(last'.result) /\ tasks' = tasks]_vars

\* C3 witness: a retry of a COMPLETED task was refused
C3_Witness ==
    /\ last.op = "retry"
    /\ PreconditionFailed(last.result)
    /\ last.task_id \in DOMAIN tasks
    /\ tasks[last.task_id].status = "COMPLETED"

\* C4: right after a successful retry the task is PENDING with progress 0, no
\* started_at, no completed_at and no error message.
C4_RetryResets ==
    last.op = "retry" /\ last.result = "ok"
      => /\ last.task_id \in DOMAIN tasks
         /\ tasks[last.task_id].status = "PENDING"
         /\ tasks[last.task_id].progress = 0
         /\ tasks[last.task_id].started_at = None
         /\ tasks[last.task_id].completed_at = None
         /\ tasks[last.task_id].error_message = None

\* C4 witness: a task that had produced output has been retried
C4_Witness ==
    /\ last.op = "retry"
    /\ last.result = "ok"
    /\ last.task_id \in DOMAIN tasks
    /\ tasks[last.task_id].output_data # None

\* C5: cancel of an existing task succeeds exactly when its status is PENDING
\* or RUNNING, and then the task is CANCELLED with completed_at set to the time
\* of the request; in every other status it fails with PreconditionFailed and
\* the tasks table is unchanged.
C5_CancelIffPendingOrRunning ==
    [][Handles("cancel") /\ last'.task_id \in DOMAIN tasks
         => LET id == last'.task_id
                status == tasks[id].status
            IN /\ last'.result = "ok" <=> status \in {"PENDING", "RUNNING"}
               /\ last'.result = "ok"
                    => /\ tasks'[id].status = "CANCELLED"
                       /\ tasks'[id].completed_at # None
                       /\ tasks'[id].completed_at = Some(now)
               /\ status \in {"COMPLETED", "FAILED", "CANCELLED", "TIMEOUT"}
                    => PreconditionFailed(last'.result) /\ tasks' = tasks]_vars

\* C5 witness: a running task has been cancelled
C5_Witness ==
    /\ last.op = "cancel"
    /\ last.result = "ok"
    /\ last.task_id \in DOMAIN tasks
    /\ tasks[last.task_id].status = "CANCELLED"
    /\ tasks[last.task_id].started_at # None

\* C6 (as stated): CANCELLED and COMPLETED are terminal: no assign, auto_assign,
\* update_status, cancel, retry or update changes the status of a task that is
\* CANCELLED or COMPLETED.
C6_TerminalStatesStay ==
    [][\A id \in DOMAIN tasks :
          (/\ tasks[id].status \in {"CANCELLED", "COMPLETED"}
           /\ last'.op \in {"assign", "auto_assign", "update_status",
                            "cancel", "retry", "update"})
            => id \in DOMAIN tasks' /\ tasks'[id].status = tasks[id].status]_vars

\* C7 (as stated): completed_at is set exactly when the status is COMPLETED,
\* FAILED, CANCELLED or TIMEOUT.
C7_CompletedAtIffFinished ==
    \A id \in DOMAIN tasks :
        tasks[id].completed_at # None
          <=> tasks[id].status \in {"COMPLETED", "FAILED", "CANCELLED", "TIMEOUT"}

C9_AssignToUnavailableAgent ==
    [][(/\ Handles("assign")
        /\ last'.task_id \in DOMAIN tasks
        /\ tasks[last'.task_id].status = "PENDING"
        /\ last'.agent[1] \in DOMAIN agents
        /\ (~agents[last'.agent[1]].is_enabled \/ agents[last'.agent[1]].status # "ACTIVE"))
         => LET id == last'.task_id
            IN /\ PreconditionFailed(last'.result)
               /\ tasks'[id].status = "PENDING"
               /\ tasks'[id].agent_id = tasks[id].agent_id
               /\ tasks'[id].started_at = tasks[id].started_at
               /\ tasks' = tasks]_vars

\* C9 witness: an assign to an ACTIVE but disabled agent was refused and the
\* task is PENDING
C9_Witness ==
    /\ last.op = "assign"
    /\ PreconditionFailed(last.result)
    /\ last.task_id \in DOMAIN tasks
    /\ tasks[last.task_id].status = "PENDING"
    /\ last.agent[1] \in DOMAIN agents
    /\ agents[last.agent[1]].status = "ACTIVE"
    /\ ~agents[last.agent[1]].is_enabled

\* C10: a successful assign leaves the task RUNNING, started at the time of the
\* request and referring to the agent the request named; every other task and
\* the agents table are unchanged.
C10_AssignEffectAndFrame ==
    [][Handles("assign") /\ last'.result = "ok"
         => LET id == last'.task_id
            IN /\ DOMAIN tasks' = DOMAIN tasks
               /\ id \in DOMAIN tasks
               /\ tasks'[id].status = "RUNNING"
               /\ tasks'[id].started_at # None
               /\ tasks'[id].started_at = Some(now)
               /\ tasks'[id].agent_id = last'.agent
               /\ \A other \in DOMAIN tasks \ {id} : tasks'[other] = tasks[other]
               /\ agents' = agents]_vars

\* C10 witness: a task was assigned while another task was stored
C10_Witness ==
    /\ last.op = "assign"
    /\ last.result = "ok"
    /\ last.task_id \in DOMAIN tasks
    /\ tasks[last.task_id].status = "RUNNING"
    /\ tasks[last.task_id].agent_id = last.agent
    /\ \E other \in DOMAIN tasks : other # last.task_id

\* C11 (as stated): auto_assign of a stored task assigns it to the first agent
\* in persistence order (the lowest primary key) that is ACTIVE and enabled; it
\* fails with ResourceExhausted, leaving the tasks table as it was, exactly when
\* no agent is ACTIVE and enabled.  The choice depends on the agents table
\* alone, so not on the priority of the task.
C11_AutoAssignFirstInPersistenceOrder ==
    [][(Handles("auto_assign") /\ last'.task_id \in DOMAIN tasks)
         => LET id == last'.task_id
                candidates == {pk \in DOMAIN agents :
                                  agents[pk].status = "ACTIVE" /\ agents[pk].is_enabled}
                first == CHOOSE pk \in candidates : \A other \in candidates : pk <= other
            IN IF candidates = {}
               THEN ResourceExhausted(last'.result) /\ tasks' = tasks
               ELSE /\ last'.result = "ok"
                    /\ tasks'[id].status = "RUNNING"
                    /\ tasks'[id].agent_id = Some(first)]_vars

\* C12 (as stated): a task is never removed from the store while its status is
\* RUNNING: delete of a RUNNING task fails with PreconditionFailed, and no step
\* of any request, the cascading delete of its agent included, takes a RUNNING
\* task out of the tasks table.
C12_RunningTaskNeverDeleted ==
    [][\A id \in DOMAIN tasks :
          tasks[id].status = "RUNNING"
            => /\ id \in DOMAIN tasks'
               /\ (Handles("delete") /\ last'.task_id = id)
                    => PreconditionFailed(last'.result)]_vars

\* the step in which delete_agent(pk) raises after its running-task query
DeleteRefused(pk) ==
    /\ pending_delete = None
    /\ pending_delete' = None
    /\ now' # now
    /\ last'.op = "delete_agent"
    /\ last'.agent = Some(pk)

\* the step in which delete_agent(pk) finds no running task and goes on
DeleteAdmitted(pk) == pending_delete = None /\ pending_delete' = Some(pk)

\* the step in which delete_agent(pk) deletes and answers
DeleteAnswered(pk) == pending_delete = Some(pk) /\ pending_delete' = None

\* C13: delete of an existing agent is refused with PreconditionFailed, leaving
\* both tables as they were, exactly when its running-task query finds a
\* RUNNING task that refers to the agent; otherwise it goes on to the delete,
\* which succeeds and leaves no row of the agent.
C13_DeleteAgentIffNoRunningTask ==
    [][\A pk \in DOMAIN agents :
          LET running == \E id \in DOMAIN tasks :
                             tasks[id].agent_id = Some(pk) /\ tasks[id].status = "RUNNING"
          IN /\ (DeleteRefused(pk) \/ DeleteAdmitted(pk))
                  => /\ DeleteRefused(pk) <=> running
                     /\ DeleteRefused(pk)
                          => /\ PreconditionFailed(last'.result)
                             /\ tasks' = tasks
                             /\ agents' = agents
             /\ DeleteAnswered(pk)
                  => /\ last'.op = "delete_agent"
                     /\ last'.result = "ok"
                     /\ pk \notin DOMAIN agents']_vars

\* C13 witness: the delete of an agent was refused because of its RUNNING task
C13_Witness ==
    /\ last.op = "delete_agent"
    /\ PreconditionFailed(last.result)
    /\ last.agent[1] \in DOMAIN agents
    /\ \E id \in DOMAIN tasks :
          tasks[id].agent_id = last.agent /\ tasks[id].status = "RUNNING"

\* C14: for every thread and every number n of turns added to it, the history
\* of the thread never holds more than the cap of 100 turns, and it is exactly
\* the last min(n, 100) turns added, in the order they were added.
C14_HistoryIsLastCapTurns ==
    /\ DOMAIN conversation_history = DOMAIN appended
    /\ \A thread_id \in DOMAIN appended :
          LET added == appended[thread_id]
              n     == Len(added)
              kept  == IF n < 100 THEN n ELSE 100
          IN  /\ Len(conversation_history[thread_id]) <= 100
              /\ conversation_history[thread_id] = SubSeq(added, n - kept + 1, n)

\* C14 witness: a thread was given more than 100 turns, so its oldest turn is
\* gone, while another thread holds all of its few turns
C14_Witness ==
    \E thread_id, other \in DOMAIN appended :
        /\ Len(appended[thread_id]) > 100
        /\ Len(conversation_history[thread_id]) = 100
        /\ conversation_history[thread_id][1] = appended[thread_id][2]
        /\ other # thread_id
        /\ conversation_history[other] = appended[other]
        /\ Len(appended[other]) > 0

\* C15 (as stated): a chat request that names the storage resource with a list
\* request (the Korean "S3 bucket list" sentence, or an English phrase with
\* "list" and "bucket") is routed to the storage agent with confidence 0.9 and,
\* when the agent runs, makes it list the buckets; a request without keyword is
\* routed to the general handler with confidence 0.7; a matched resource kind
\* has 0.9.
C15_KeywordRouting ==
    [][\A r \in {reply'[1]} :
          (appended' # appended /\ r.result.routing_info # None) =>
              LET text     == lower[r.request]
                  analysis == r.result.routing_info[1]
                  calls    == SubSeq(sdk_calls', Len(sdk_calls) + 1, Len(sdk_calls'))
              IN  /\ (\/ Contains(r.request, "{beo}{kit}") /\ Contains(r.request, "{mok}{rok}")
                      \/ Contains(text, "list") /\ Contains(text, "bucket")) =>
                         /\ analysis = Analysis("s3", 9)
                         /\ r.result.success = Some(TRUE) =>
                                /\ Len(calls) = 1
                                /\ calls[1].operation = "list_buckets"
                  /\ ~AnyIn(EC2Keywords \cup S3Keywords \cup VPCKeywords, text) =>
                         analysis = Analysis("general", 7)
                  /\ analysis.agent_type # "general" => analysis.confidence = 9]_vars

\* C16 (as stated): a route call whose handler succeeds adds exactly one
\* assistant turn with the response text and the metadata {agent used,
\* confidence}; a route call that fails returns the failure envelope {success:
\* false, error, message} and adds a system-error turn, not an assistant turn.
C16_RouteAsStated ==
    [][\A r \in {reply'[1]} :
          (appended' # appended) =>
              LET thread_id == r.thread_id[1]
                  before    == HistoryOf(appended, thread_id)
                  after     == appended'[thread_id]
                  answer    == after[Len(after)]
              IN  /\ Len(after) = Len(before) + 2
                  /\ r.result.success = Some(TRUE) =>
                        /\ answer.type = "assistant"
                        /\ Some(answer.content) = r.result.response
                        /\ answer.metadata =
                              Metadata(r.result.agent_used, r.result.confidence, None)
                  /\ r.result.success # Some(TRUE) =>
                        /\ answer.type = "system_error"
                        /\ r.result = Failure(r.result.error[1], r.result.message[1])]_vars

\* C16: a route call adds the user turn and one more turn to its thread and
\* returns a dict with the success key, so it never raises.  When the handler
\* succeeds the second turn is an assistant turn with the response text and
\* the metadata {agent used, confidence}.  When the handler fails, its failure
\* dict is answered with an apology: the second turn is again an assistant
\* turn, with the metadata {agent used, error}, and the call returns {success:
\* false, response, error, agent_used, routing_info}.  Only when the graph run
\* itself raises is the second turn a system-error turn, and only then is the
\* envelope {success: false, error, message} returned.
C16_RouteRecordsOutcome ==
    [][\A r \in {reply'[1]} :
          (appended' # appended) =>
              LET thread_id == r.thread_id[1]
                  before    == HistoryOf(appended, thread_id)
                  after     == appended'[thread_id]
                  request   == after[Len(after) - 1]
                  answer    == after[Len(after)]
              IN  /\ Len(after) = Len(before) + 2
                  /\ SubSeq(after, 1, Len(before)) = before
                  /\ \A other \in DOMAIN appended' \ {thread_id} :
                        other \in DOMAIN appended /\ appended'[other] = appended[other]
                  /\ request.type = "user" /\ request.content = r.request
                  /\ r.result.success \in {Some(TRUE), Some(FALSE)}
                  /\ r.result.success = Some(TRUE) =>
                        /\ answer.type = "assistant"
                        /\ Some(answer.content) = r.result.response
                        /\ answer.metadata =
                              Metadata(r.result.agent_used, r.result.confidence, None)
                        /\ r.result.agent_used # None /\ r.result.confidence # None
                  /\ (r.result.success = Some(FALSE) /\ r.result.routing_info # None) =>
                        /\ answer.type = "assistant"
                        /\ Some(answer.content) = r.result.response
                        /\ answer.metadata =
                              Metadata(r.result.agent_used, None, r.result.error)
                        /\ r.result.agent_used # None /\ r.result.error # None
                        /\ r.result.message = None
                  /\ r.result.routing_info = None =>
                        /\ answer.type = "system_error"
                        /\ answer.metadata = Metadata(None, None, r.result.error)
                        /\ r.result = Failure(r.result.error[1], answer.content)]_vars

\* C16 witness: on a thread whose first request was answered by a handler, a
\* second request met a failing handler and was answered with an apology in an
\* assistant turn
C16_Witness ==
    /\ reply # None
    /\ reply[1].op = "process_request"
    /\ reply[1].result.success = Some(FALSE)
    /\ reply[1].result.routing_info # None
    /\ LET turns == appended[reply[1].thread_id[1]]
       IN  /\ Len(turns) = 4
           /\ turns[2].type = "assistant"
           /\ turns[2].metadata.confidence = Some(9)
           /\ turns[4].type = "assistant"
           /\ turns[4].metadata.error = reply[1].result.error
           /\ turns[4].metadata.confidence = None

\* C17 (as stated): for every resource kind, a delete or terminate request
\* that names no identifier (no bucket, no VPC, no instance id) makes no SDK
\* call, and what it returns is the validation error "<parameter> required".
C17_DeleteNeedsIdentifier ==
    [][\A r \in {reply'[1]} :
          (\/ r.op = "s3_agent" /\ r.request \in {"S3 delete bucket", "S3 {beo}{kit} {sak}{je}"}
           \/ r.op = "vpc_agent" /\ r.request = "delete vpc"
           \/ r.op = "ec2_tool" /\ r.request = "terminate_instance" /\ r.instance_ids = <<>>)
          => /\ sdk_calls' = sdk_calls
             /\ r.result.tool_result[1].error # None
             /\ Contains(r.result.tool_result[1].error[1], "required")]_vars

\* C18 (as stated): when an SDK call made for a request of the storage or the
\* network agent fails, the result the agent returns has success = false and
\* the error message; a result with success = true is returned only when the
\* SDK call succeeded.
C18_SdkFailureIsReported ==
    [][\A r \in {reply'[1]} :
          (r.op \in {"s3_agent", "vpc_agent"} /\ sdk_calls' # sdk_calls) =>
              LET tool_result == r.result.tool_result[1]
                  failed      == \/ tool_result.success = Some(FALSE)
                                 \/ tool_result.text = Some("BotoCoreError")
              IN  /\ failed => r.result.success = Some(FALSE) /\ r.result.error # None
                  /\ r.result.success = Some(TRUE) => ~failed]_vars

\* C19: whatever each cache call did, the agents table, the sequence and the
\* outcome of the last agent request are those of a service whose cache calls
\* all fail, and no request ends with the exception of a cache call.
C19_CacheNeverChangesOutcome ==
    /\ agents = reference.agents
    /\ agent_seq = reference.agent_seq
    /\ last.result = reference.result
    /\ last.result # "Exception"

\* C19 witness: a status update succeeded although its cache delete failed, so
\* Redis still holds the agent as it was created
C19_Witness ==
    /\ last.op = "update_agent_status"
    /\ last.result = "ok"
    /\ get_cache_key("agent", last.agent[1]) \in DOMAIN cache
    /\ cache[get_cache_key("agent", last.agent[1])] # agents[last.agent[1]]

\* C20 (as stated): while a task stays RUNNING its progress never decreases:
\* in any two consecutive states in which the task is RUNNING, the later
\* progress is at least the earlier one.
C20_ProgressMonotoneWhileRunning ==
    [][\A id \in DOMAIN tasks \cap DOMAIN tasks' :
          (tasks[id].status = "RUNNING" /\ tasks'[id].status = "RUNNING")
            => tasks'[id].progress >= tasks[id].progress]_vars

C22_AssignOnlyFromPending ==
    [][(/\ last'.op \in {"assign", "auto_assign"}
        /\ last'.task_id \in DOMAIN tasks
        /\ tasks[last'.task_id].status # "PENDING")
         => LET id == last'.task_id
            IN /\ tasks'[id].status = tasks[id].status
               /\ tasks'[id].agent_id = tasks[id].agent_id
               /\ tasks'[id].started_at = tasks[id].started_at]_vars

\* the step in which a request of kind op that was in flight commits
Commits(op) == Len(in_flight') < Len(in_flight) /\ last'.op = op

\* C23 (as stated): with requests on the same task interleaved, the commit of
\* a cancel writes CANCELLED only over a stored status of PENDING or RUNNING,
\* and the commit of a retry resets only a task whose stored status is FAILED
\* or TIMEOUT: a cancel or retry whose task another request has moved on since
\* it was read does not change the status.
C23_CheckedStatusStillHolds ==
    [][/\ (Commits("cancel") /\ last'.task_id \in DOMAIN tasks)
            => \/ tasks[last'.task_id].status \in {"PENDING", "RUNNING"}
               \/ tasks'[last'.task_id].status = tasks[last'.task_id].status
       /\ (Commits("retry") /\ last'.task_id \in DOMAIN tasks)
            => \/ tasks[last'.task_id].status \in {"FAILED", "TIMEOUT"}
               \/ tasks'[last'.task_id].status = tasks[last'.task_id].status]_vars

\* C24 (as stated): of several creates with the same task_id that are in
\* flight together at most one stores its task: a create that commits after
\* the task_id has been stored by another one fails with DuplicateKey, and the
\* row that is stored stays the only one of its task_id, as it was.
C24_ConcurrentCreateIsDuplicateKey ==
    [][(Commits("create") /\ last'.task_id \in DOMAIN tasks)
         => /\ DuplicateKey(last'.result)
            /\ last'.result # "IntegrityError"
            /\ tasks' = tasks]_vars

\* the three nodes in the order of the graph
AnalyzeRouteRespond == <<"analyze_request", "route_to_agent", "generate_response">>

\* the step in which the chat request that was being handled is answered
Answers == graph_run # None /\ graph_run' = None

C26_CacheAbsentOrCurrent ==
    pending_delete = None =>
        \A pk \in AgentPKs :
            LET key == get_cache_key("agent", pk)
            IN  key \in DOMAIN cache => pk \in DOMAIN agents /\ cache[key] = agents[pk]

\* C27 (as stated): a progress report for a task that exists succeeds, stores
\* the submitted progress and leaves the status, the agent reference and the
\* timestamps of the task as they were.
C27_ProgressUpdateSucceeds ==
    [][\A task_id \in TaskIds : \A progress_data \in TaskProgressUpdate :
          (UpdateTaskProgress(task_id, progress_data) /\ HasTask(tasks, task_id)) =>
              /\ last'.result = "ok"
              /\ tasks'[task_id] =
                     [tasks[task_id] EXCEPT
                         !.progress = progress_data.progress,
                         !.output_data = IF progress_data.output_data # None
                                         THEN progress_data.output_data ELSE @]]_vars

\* C28 (as stated): a heartbeat of an agent that exists leaves the agent with
\* last_heartbeat set to the time of the heartbeat and with the status the
\* heartbeat reports; a heartbeat of an unknown agent_id answers not found and
\* leaves every agent as it was.
C28_HeartbeatIsStamped ==
    [][\A heartbeat_data \in AgentHeartbeatRequest :
          UpdateHeartbeat(heartbeat_data) =>
              IF HasAgentNamed(agents, heartbeat_data.agent_id)
              THEN \E pk \in DOMAIN agents' :
                      /\ agents'[pk].agent_id = heartbeat_data.agent_id
                      /\ last'.result = "ok"
                      /\ agents'[pk].last_heartbeat = Some(now')
                      /\ agents'[pk].status = heartbeat_data.status
              ELSE last'.result = "None" /\ agents' = agents]_vars

\* C29 (as stated): in every reachable state a task that is RUNNING refers to
\* an agent that exists and has started_at set.
C29_RunningTaskHasAgentAndStart ==
    \A task_id \in DOMAIN tasks :
        tasks[task_id].status = "RUNNING" =>
            /\ tasks[task_id].agent_id # None
            /\ HasAgent(agents, tasks[task_id].agent_id[1])
            /\ tasks[task_id].started_at # None

\* C30 (as stated): with requests handled one after another, through
\* process_request, process_request_async or stream_request, every request
\* adds one user turn and then one response turn to its thread: below the cap
\* the turns of a thread come in pairs, a user turn followed by an assistant
\* or system_error turn, and the user turn holds the text of the request.
C30_TurnsComeInPairs ==
    /\ \A thread_id \in DOMAIN conversation_history :
          LET turns == conversation_history[thread_id]
          IN  Len(turns) < max_history =>
                 /\ Len(turns) % 2 = 0
                 /\ \A i \in 1..Len(turns) :
                       IF i % 2 = 1 THEN turns[i].type = "user"
                       ELSE turns[i].type \in {"assistant", "system_error"}
    /\ (reply # None /\ reply[1].op \in {"process_request", "stream_request"}) =>
          LET turns == HistoryOf(conversation_history, reply[1].thread_id[1])
          IN  /\ Len(turns) >= 2
              /\ turns[Len(turns) - 1].type = "user"
              /\ turns[Len(turns) - 1].content = reply[1].request
              /\ turns[Len(turns)].type \in {"assistant", "system_error"}

====
